---- MODULE Spec2Model ----
(***************************************************************************)
(* doc-processor: the extraction cascade of process_document_bytes         *)
(* (src/apps/doc-processor/src/main.py) with the PDF extractor             *)
(* (processors/pdf.py) and the OCR adapter (processors/ocr.py); the        *)
(* endpoints of main.py with their responses, served by one event loop;    *)
(* the face model, embed and compare of processors/face.py and the         *)
(* embedding cache they use.                                               *)
(*                                                                         *)
(* Text is a sequence of one-character strings, so that strip(), join()    *)
(* and len() are computed as Python computes them.  A float is a rational  *)
(* <<numerator, denominator>> in lowest terms; None is the empty tuple.    *)
(***************************************************************************)
EXTENDS Integers, Sequences, FiniteSets, TLC

\* ------------------------------------------------------------------ bounds
\* Pages of a generated PDF.
MaxPages == 2
\* Embedded images of a generated PDF (all pages together).
MaxImages == 4
\* FaceAnalysis instances constructed in one run of the service.
MaxInstances == 2

\* ------------------------------------------------------- config.py constants
MAX_FILE_SIZE == 10 * 1024 * 1024
MAX_IMAGES_TO_OCR == 3
MIN_IMAGE_SIZE_FOR_OCR == 10000
NATIVE_TEXT_THRESHOLD == 500

\* ------------------------------------------------------------ text helpers
None == <<>>

\* Characters str.strip() removes.
Whitespace == {" ", "\n", "\t"}

Rep(c, n) == [k \in 1..n |-> c]

RECURSIVE LStrip(_)
LStrip(s) == IF s = <<>> \/ Head(s) \notin Whitespace THEN s ELSE LStrip(Tail(s))

RECURSIVE RStrip(_)
RStrip(s) ==
  IF s = <<>> \/ s[Len(s)] \notin Whitespace THEN s ELSE RStrip(SubSeq(s, 1, Len(s) - 1))

\* str.strip()
Strip(s) == RStrip(LStrip(s))

\* sep.join(parts)
RECURSIVE Join(_, _)
Join(sep, parts) ==
  IF parts = <<>> THEN <<>>
  ELSE IF Len(parts) = 1 THEN parts[1]
  ELSE parts[1] \o sep \o Join(sep, Tail(parts))

UpperChars == <<"A", "B", "D", "E", "F", "G", "I", "J", "M", "N", "P", "T", "W", "X">>
LowerChars == <<"a", "b", "d", "e", "f", "g", "i", "j", "m", "n", "p", "t", "w", "x">>

LowerChar(c) ==
  IF \E k \in 1..Len(UpperChars) : UpperChars[k] = c
  THEN LowerChars[CHOOSE k \in 1..Len(UpperChars) : UpperChars[k] = c]
  ELSE c

\* str.lower()
Lower(s) == [k \in 1..Len(s) |-> LowerChar(s[k])]

\* str.endswith(suffix)
EndsWith(s, suffix) ==
  /\ Len(s) >= Len(suffix)
  /\ SubSeq(s, Len(s) - Len(suffix) + 1, Len(s)) = suffix

\* s[:n]
Take(s, n) == SubSeq(s, 1, IF Len(s) < n THEN Len(s) ELSE n)

\* --------------------------------------------------------------- rationals
RECURSIVE Gcd(_, _)
Gcd(a, b) == IF b = 0 THEN a ELSE Gcd(b, a % b)

Rat(n, d) == IF n = 0 THEN <<0, 1>> ELSE <<n \div Gcd(n, d), d \div Gcd(n, d)>>

RAdd(x, y) == Rat(x[1] * y[2] + y[1] * x[2], x[2] * y[2])

RDivInt(x, k) == Rat(x[1], x[2] * k)

RECURSIVE RSum(_)
RSum(xs) == IF xs = <<>> THEN <<0, 1>> ELSE RAdd(Head(xs), RSum(Tail(xs)))

\* sum(xs) / len(xs)
Mean(xs) == RDivInt(RSum(xs), Len(xs))

RLe(x, y) == x[1] * y[2] <= y[1] * x[2]

\* ------------------------------------------------------------------ inputs
\* Filenames a request may carry: one PDF name in mixed case, image names,
\* an image name that contains ".pdf" inside, and unsupported names.
Filenames ==
  { <<"x", ".", "P", "d", "f">>,
    <<"x", ".", "P", "N", "G">>,
    <<"x", ".", "j", "p", "e", "g">>,
    <<"x", ".", "p", "d", "f", ".", "w", "e", "b", "p">>,
    <<"x", ".", "t", "x", "t">>,
    <<"x", "p", "d", "f">> }

\* len(file_bytes): at the limit and one byte over it.
FileSizes == {MAX_FILE_SIZE, MAX_FILE_SIZE + 1}

\* page.get_text() of one page: blank, short, and text whose trimmed length
\* is exactly the threshold and one more than it (all with surrounding
\* whitespace, so trimmed and untrimmed text differ).
PageTexts ==
  { <<" ">>,
    <<" ", "a", "\n">>,
    <<" ">> \o Rep("a", NATIVE_TEXT_THRESHOLD) \o <<"\n">>,
    <<" ">> \o Rep("a", NATIVE_TEXT_THRESHOLD + 1) \o <<"\n">> }

\* One entry of page.get_images(): doc.extract_image(xref) gives a payload of
\* `size` bytes, or fails (extractable = FALSE).
ImageSlots ==
  { [size |-> MIN_IMAGE_SIZE_FOR_OCR - 1, extractable |-> TRUE],
    [size |-> MIN_IMAGE_SIZE_FOR_OCR, extractable |-> TRUE],
    [size |-> 0, extractable |-> FALSE] }

SeqUpTo(S, n) == UNION {[1..k -> S] : k \in 0..n}

\* What fitz.open() finds in the bytes of a request: the texts of the pages
\* and the embedded images of all pages in page order; or bytes that are no
\* PDF (valid = FALSE).
Docs ==
  { [valid |-> TRUE, pages |-> p, images |-> m] :
      p \in SeqUpTo(PageTexts, MaxPages) \ {<<>>}, m \in SeqUpTo(ImageSlots, MaxImages) }
  \cup { [valid |-> TRUE, pages |-> <<>>, images |-> <<>>],
         [valid |-> FALSE, pages |-> <<>>, images |-> <<>>] }

\* An image as handed around: where it comes from, its position there, its
\* byte length.
Image(src, id, size) == [src |-> src, id |-> id, size |-> size]

\* pytesseract.image_to_data(): the (text, conf) rows Tesseract reports.
Token(t, c) == [text |-> t, conf |-> c]

TokenData ==
  { <<>>,
    <<Token(<<"h", "i">>, 90)>>,
    <<Token(<<" ">>, 95), Token(<<"y">>, 80), Token(<<"q">>, -1), Token(<<"z">>, 50)>> }

\* What one call of the OCR capability does: PIL cannot open the bytes,
\* Tesseract is not installed, Tesseract fails on this image, or it reports
\* rows.
OcrResponses(installed) ==
  {[kind |-> "UnidentifiedImageError", data |-> <<>>]}
  \cup (IF installed
        THEN {[kind |-> "TesseractError", data |-> <<>>]}
             \cup {[kind |-> "data", data |-> d] : d \in TokenData}
        ELSE {[kind |-> "TesseractNotFoundError", data |-> <<>>]})

\* ------------------------------------------------------- main.py: dispatch
\* is_pdf(filename)
is_pdf(name) == EndsWith(Lower(name), <<".", "p", "d", "f">>)

ImageExtensions ==
  { <<".", "p", "n", "g">>, <<".", "j", "p", "g">>, <<".", "j", "p", "e", "g">>,
    <<".", "t", "i", "f", "f">>, <<".", "t", "i", "f">>, <<".", "b", "m", "p">>,
    <<".", "w", "e", "b", "p">> }

\* faulty variant: the extension compared without lower()
is_image_CaseSensitive(name) == \E ext \in ImageExtensions : EndsWith(name, ext)

\* is_image(filename)
is_image(name) == \E ext \in ImageExtensions : EndsWith(Lower(name), ext)

\* faulty variant: a file of exactly the maximum size rejected too
TooLarge_AtLimit(size) == size >= MAX_FILE_SIZE

\* len(file_bytes) > MAX_FILE_SIZE
TooLarge(size) == size > MAX_FILE_SIZE

\* ------------------------------------------- pdf.py: extract_pdf_text_and_images
\* text_parts: the texts of the pages that are not blank, in page order
RECURSIVE TextParts(_)
TextParts(pages) ==
  IF pages = <<>> THEN <<>>
  ELSE IF Strip(Head(pages)) # <<>> THEN <<Head(pages)>> \o TextParts(Tail(pages))
  ELSE TextParts(Tail(pages))

\* the byte lengths of the payloads doc.extract_image() delivers, in page
\* order; an entry whose extraction fails is skipped
RECURSIVE ExtractedSizes(_)
ExtractedSizes(slots) ==
  IF slots = <<>> THEN <<>>
  ELSE IF Head(slots).extractable
       THEN <<Head(slots).size>> \o ExtractedSizes(Tail(slots))
       ELSE ExtractedSizes(Tail(slots))

\* images: the extracted payloads, each known by its place in the list
ExtractedImages(slots) ==
  LET sizes == ExtractedSizes(slots)
  IN  [k \in 1..Len(sizes) |-> Image("embedded", k, sizes[k])]

extract_pdf_text_and_images(d) ==
  [native_text |-> Join(<<"\n", "\n">>, TextParts(d.pages)),
   page_count |-> Len(d.pages),
   images |-> ExtractedImages(d.images)]

\* pdf_to_images(file_bytes): one rendered PNG per page
pdf_to_images(pages) == [k \in 1..Len(pages) |-> Image("page", k, 0)]

\* ------------------------------------------- ocr.py: resize_image_for_ocr
OCR_IMAGE_MAX_DIMENSION == 1500

\* an image file as PIL opens it: img.size and the bytes that encode it
ImageFile(width, height) == [width |-> width, height |-> height, bytes |-> "original"]

\* resize_image_for_ocr(image_bytes, max_dimension): the image handed back.
\* int(height * (max_dimension / width)) truncates the product.
resize_image_for_ocr(img, max_dimension) ==
  LET width == img.width
      height == img.height
      new_width == IF width > height THEN max_dimension
                   ELSE (width * max_dimension) \div height
      new_height == IF width > height THEN (height * max_dimension) \div width
                    ELSE max_dimension
  IN  IF width <= max_dimension /\ height <= max_dimension THEN img
      ELSE [width |-> new_width, height |-> new_height, bytes |-> "resized PNG"]

\* ------------------------------------------------------- ocr.py: ocr_image
\* faulty variant: the confidence of a row not brought to the 0-1 range
Scaled_Percent(conf) == Rat(conf, 1)

\* float(conf) / 100.0
Scaled(conf) == Rat(conf, 100)

\* the rows kept by the loop: text.strip() and conf != -1
RECURSIVE KeptTokens(_)
KeptTokens(data) ==
  IF data = <<>> THEN <<>>
  ELSE IF Strip(Head(data).text) # <<>> /\ Head(data).conf # -1
       THEN <<Head(data)>> \o KeptTokens(Tail(data))
       ELSE KeptTokens(Tail(data))

\* ocr_image(image_bytes) for one response of the OCR capability: the
\* exception it raises, or (text, confidence).
ocr_image(resp) ==
  LET kept == KeptTokens(resp.data)
      texts == [k \in 1..Len(kept) |-> kept[k].text]
      confidences == [k \in 1..Len(kept) |-> Scaled(kept[k].conf)]
  IN  CASE resp.kind = "UnidentifiedImageError" ->
             [raised |-> "UnidentifiedImageError", text |-> <<>>, confidence |-> None]
        [] resp.kind = "TesseractNotFoundError" ->
             [raised |-> "RuntimeError: Tesseract OCR not found", text |-> <<>>,
              confidence |-> None]
        [] resp.kind = "TesseractError" ->
             [raised |-> "RuntimeError: Tesseract OCR failed", text |-> <<>>,
              confidence |-> None]
        [] OTHER ->
             IF texts = <<>>
             THEN [raised |-> "", text |-> <<>>, confidence |-> <<0, 1>>]
             ELSE [raised |-> "", text |-> Join(<<" ">>, texts),
                   confidence |-> Mean(confidences)]

\* --------------------------------------- main.py: process_document_bytes, PDF
\* faulty variant: the shortcut taken at the threshold already
HasMeaningfulNativeText_AtThreshold(stripped) == Len(stripped) >= NATIVE_TEXT_THRESHOLD

\* Skip image OCR if we have meaningful native text
HasMeaningfulNativeText(stripped) == Len(stripped) > NATIVE_TEXT_THRESHOLD

\* [img for img in embedded_images if len(img) >= MIN_IMAGE_SIZE_FOR_OCR]
RECURSIVE LargeImages(_)
LargeImages(images) ==
  IF images = <<>> THEN <<>>
  ELSE IF Head(images).size >= MIN_IMAGE_SIZE_FOR_OCR
       THEN <<Head(images)>> \o LargeImages(Tail(images))
       ELSE LargeImages(Tail(images))

\* faulty variant: the size filter without the limit
ImagesToOcr_NoLimit(images) == LargeImages(images)

\* faulty variant: the limit applied before the size filter
ImagesToOcr_LimitFirst(images) == LargeImages(Take(images, MAX_IMAGES_TO_OCR))

\* images_to_ocr: the size filter, then the limit
ImagesToOcr(images) ==
  LET large == LargeImages(images)
  IN  IF Len(large) > MAX_IMAGES_TO_OCR THEN Take(large, MAX_IMAGES_TO_OCR) ELSE large

ImageTextSeparator ==
  <<"\n", "\n", "-", "-", "-", " ", "T", "e", "x", "t", " ", "f", "r", "o", "m", " ",
    "e", "m", "b", "e", "d", "d", "e", "d", " ", "i", "m", "a", "g", "e", "s", " ",
    "-", "-", "-", "\n", "\n">>

\* faulty variant: the separator written even when there is no native text
CombinedText_AlwaysSeparator(stripped, texts) ==
  stripped \o ImageTextSeparator \o Join(<<"\n", "\n">>, texts)

\* combined_text
CombinedText(stripped, texts) ==
  (IF stripped # <<>> THEN stripped \o ImageTextSeparator ELSE <<>>)
    \o Join(<<"\n", "\n">>, texts)

\* DocumentData(text, page_count, method, confidence)
DocumentData(text, pages, method, confidence) ==
  [kind |-> "data", text |-> text, page_count |-> pages, method |-> method,
   confidence |-> confidence, error |-> ""]

\* {"error": message}
ErrorDict(message) ==
  [kind |-> "error", text |-> <<>>, page_count |-> 0, method |-> "", confidence |-> None,
   error |-> message]

\* an exception that leaves process_document_bytes
Raised(exc) ==
  [kind |-> "raised", text |-> <<>>, page_count |-> 0, method |-> "", confidence |-> None,
   error |-> exc]

NoResult ==
  [kind |-> "none", text |-> <<>>, page_count |-> 0, method |-> "", confidence |-> None,
   error |-> ""]

\* faulty variant: full-page OCR disabled, the native text returned always
ReturnsNativeText_Always(stripped) == TRUE

\* No embedded images with text - check if we have native text
ReturnsNativeText(stripped) == stripped # <<>>

\* faulty variant: only an image PIL cannot open is skipped
CaughtPerImage_DecodeErrorsOnly(exc) == exc = "UnidentifiedImageError"

\* except Exception: every exception ocr_image can raise is an Exception
CaughtPerImage(exc) == TRUE

\* faulty variant: no confidence when no page gave text
PagesConfidence_NoneWhenEmpty(confidences) ==
  IF confidences # <<>> THEN Mean(confidences) ELSE None

\* avg_confidence of ocr_pdf_pages
PagesConfidence(confidences) ==
  IF confidences # <<>> THEN Mean(confidences) ELSE <<0, 1>>

\* ------------------------------------------------ main.py: the request layer
\* base64 text: `chars` characters of the base64 alphabet followed by `pads`
\* padding characters, with `other` characters outside the alphabet among them
Base64Text(chars, pads, other) == [chars |-> chars, pads |-> pads, other |-> other]

\* base64.b64encode of n bytes
b64encode(n) ==
  Base64Text(4 * (n \div 3) + (IF n % 3 = 0 THEN 0 ELSE (n % 3) + 1), (3 - (n % 3)) % 3, 0)

\* base64.b64decode(text): characters outside the alphabet are dropped; a
\* last group of 2 or 3 characters needs its padding, a last group of 1
\* character is never valid; gives binascii.Error or the number of bytes
b64decode(t) ==
  LET q == t.chars % 4
      whole == 3 * (t.chars \div 4)
  IN  IF q = 0 THEN [raised |-> FALSE, size |-> whole]
      ELSE IF q # 1 /\ t.pads >= 4 - q THEN [raised |-> FALSE, size |-> (whole + q) - 1]
      ELSE [raised |-> TRUE, size |-> 0]

\* request.file_data: a file of the maximum size, one byte more, the text
\* "not-valid-base64!!!" and the text "!!!!"
FileData ==
  { b64encode(MAX_FILE_SIZE), b64encode(MAX_FILE_SIZE + 1),
    Base64Text(14, 0, 5), Base64Text(0, 0, 4) }

\* filenames of the documents sent along with face requests: an image and
\* an unsupported file
OtherFilenames == {<<"x", ".", "P", "N", "G">>, <<"x", ".", "t", "x", "t">>}

\* request.size of a thumbnail request (the default)
ThumbnailSizes == {150}

\* page.get_pixmap(): the page scaled to fit max_size, one side reaching it
Pixmaps(max_size) ==
  { [width |-> max_size, height |-> max_size],
    [width |-> max_size, height |-> max_size - 1] }

\* a response as the client reads it: which code produced it, the HTTP
\* status, and the fields of the JSON body; <<>> is a field that is null or
\* absent, <<v>> a field of value v; a message is the sequence of its parts
Response(by, status, ok, error, detail) ==
  [by |-> by, status |-> status, ok |-> ok, data |-> <<>>, vector |-> <<>>,
   distance |-> <<>>, threshold |-> <<>>, match |-> <<>>, message |-> <<>>,
   model |-> <<>>, meta |-> <<>>, error |-> error, detail |-> detail]

\* a result model returned by a handler with ok=False
Failure(error) == Response("handler", 200, <<FALSE>>, <<error>>, <<>>)

\* a result model returned by a handler with ok=True (payload set by EXCEPT)
Success == Response("handler", 200, <<TRUE>>, <<>>, <<>>)

\* raise HTTPException(status_code, detail): answered by FastAPI's handler
\* of HTTPException with the body {"detail": detail}
HttpExceptionResponse(status, detail) ==
  Response("http_exception_handler", status, <<>>, <<>>, <<detail>>)

\* global_exception_handler(request, exc)
global_exception_handler(exc) ==
  Response("global_exception_handler", 500, <<FALSE>>, <<exc>>, <<>>)

\* faulty variant: an error dict returned as data
process_base64_return_ErrorAsData(res) ==
  IF res.kind = "raised" THEN global_exception_handler(<<res.error>>)
  ELSE [Success EXCEPT !.data = <<res>>]

\* process_base64 after process_document_bytes: the exception that left it,
\* the error dict or the DocumentData
process_base64_return(res) ==
  IF res.kind = "raised" THEN global_exception_handler(<<res.error>>)
  ELSE IF res.kind = "error" THEN Failure(<<res.error>>)
  ELSE [Success EXCEPT !.data = <<res>>]

\* pdf_first_page_thumbnail(file_bytes, max_size) on what fitz finds in the
\* bytes: the exception raised, or the rendered first page
pdf_first_page_thumbnail(d, pix) ==
  IF ~d.valid THEN [raised |-> "FileDataError", message |-> <<"FileDataError">>, pix |-> pix]
  ELSE IF Len(d.pages) = 0
  THEN [raised |-> "ValueError", message |-> <<"PDF has no pages">>, pix |-> pix]
  ELSE [raised |-> "", message |-> <<>>, pix |-> pix]

\* generate_pdf_thumbnail(request)
generate_pdf_thumbnail(file_data, d, pix) ==
  IF b64decode(file_data).raised THEN Failure(<<"Invalid base64 encoding">>)
  ELSE LET t == pdf_first_page_thumbnail(d, pix)
       IN  IF t.raised = "ValueError" THEN Failure(t.message)
           ELSE IF t.raised # ""
           THEN Failure(<<"Failed to generate thumbnail: ">> \o t.message)
           ELSE [Success EXCEPT !.data = <<[image |-> "png", width |-> t.pix.width,
                                           height |-> t.pix.height]>>]

\* ---------------------------------------------------------------- face.py
SUPPORTED_MODELS == {"buffalo_l", "buffalo_s"}

\* body.model of a load request: the supported names and another one
ModelNames == SUPPORTED_MODELS \cup {"unknown-model"}

\* str.startswith(prefix)
StartsWith(s, prefix) == Len(s) >= Len(prefix) /\ SubSeq(s, 1, Len(prefix)) = prefix

\* s.split(ch, 1)[1], or "" when ch is not in s
RECURSIVE AfterFirst(_, _)
AfterFirst(s, ch) ==
  IF s = <<>> THEN <<>>
  ELSE IF Head(s) = ch THEN Tail(s)
  ELSE AfterFirst(Tail(s), ch)

\* _strip_data_url(b64)
_strip_data_url(b64) ==
  IF StartsWith(b64, <<"d", "a", "t", "a", ":">>) THEN AfterFirst(b64, ",") ELSE b64

\* base64 texts of pictures: A shows two faces whose boxes differ by less
\* than a pixel, B shows no face, C shows two faces of the same size
Pictures == {<<"A">>, <<"B">>, <<"C">>}

\* body.image_b64: nothing, a data URL without a comma, picture A as a data
\* URL and bare, picture B, and text that is no picture
ImagePayloads ==
  { <<>>,
    <<"d", "a", "t", "a", ":">>,
    <<"d", "a", "t", "a", ":", ",", "A">>,
    <<"A">>, <<"B">>, <<"Z">> }

\* _to_bgr(image_b64): the exception of b64decode / Image.open, or the pixels
_to_bgr(image_b64) ==
  IF image_b64 \in Pictures THEN [raised |-> "", bgr |-> image_b64]
  ELSE [raised |-> "UnidentifiedImageError", bgr |-> <<>>]

\* a detected face
Face(bbox, score, emb) == [bbox |-> bbox, det_score |-> score, normed_embedding |-> emb]

\* normed_embedding values a model may give the larger face of picture A:
\* unit vectors rounded to the precision of the float format.  float32 keeps
\* 24 bits; the model keeps 5 fraction bits, so a component is a multiple of
\* 1/32 and the squared norm of a rounded unit vector is 1 only by chance.
Embeddings(model) ==
  IF model = "buffalo_l"
  THEN {<<Rat(24, 32), Rat(21, 32)>>, <<Rat(20, 32), Rat(25, 32)>>}
  ELSE {<<Rat(0, 1), Rat(1, 1)>>}

\* the normed_embedding a model gives the first face of picture C
TieEmbedding(model) ==
  IF model = "buffalo_l" THEN <<Rat(1, 1), Rat(0, 1)>> ELSE <<Rat(0, 1), Rat(-1, 1)>>

\* _fa.get(bgr): what the detector of the loaded model may report
Detections(model, image_b64) ==
  IF image_b64 = <<"A">>
  THEN { <<Face(<<Rat(10, 1), Rat(10, 1), Rat(599, 10), Rat(599, 10)>>,
                Rat(9, 10), <<Rat(-1, 1), Rat(0, 1)>>),
           Face(<<Rat(109, 10), Rat(109, 10), Rat(60, 1), Rat(60, 1)>>,
                Rat(4, 5), e)>> : e \in Embeddings(model) }
  ELSE IF image_b64 = <<"C">>
  THEN { <<Face(<<Rat(0, 1), Rat(0, 1), Rat(30, 1), Rat(30, 1)>>,
                Rat(7, 10), TieEmbedding(model)),
           Face(<<Rat(10, 1), Rat(10, 1), Rat(40, 1), Rat(40, 1)>>,
                Rat(9, 10), <<Rat(-1, 1), Rat(0, 1)>>)>> }
  ELSE {<<>>}

\* ndarray.astype(int) on a float: the fraction is cut off, towards zero
AsInt(x) == IF x[1] >= 0 THEN x[1] \div x[2] ELSE -((-x[1]) \div x[2])

\* _area(face): x1, y1, x2, y2 = face.bbox.astype(int)
_area(f) ==
  (AsInt(f.bbox[3]) - AsInt(f.bbox[1])) * (AsInt(f.bbox[4]) - AsInt(f.bbox[2]))

\* max(faces, key=_area): the first face of the largest area
RECURSIVE LargestFace(_)
LargestFace(faces) ==
  IF Len(faces) = 1 THEN faces[1]
  ELSE LET rest == LargestFace(Tail(faces))
       IN  IF _area(Head(faces)) >= _area(rest) THEN Head(faces) ELSE rest

\* the meta dict of embed
Meta(faces, bbox, det_score, cached) ==
  [faces |-> faces, bbox |-> bbox, det_score |-> det_score, cached |-> cached]

\* ----------------------------------------------------------- face_cache.py
\* get_cache_key(image_b64, model_name)
get_cache_key(image_b64, model) == <<image_b64, model>>

\* cache_get(key): the stored (embedding, meta), or None
cache_get(store, enabled, key) ==
  IF enabled /\ \E e \in store : e.key = key
  THEN LET e == CHOOSE e \in store : e.key = key
       IN  <<[embedding |-> e.embedding, meta |-> e.meta]>>
  ELSE <<>>

\* cache_set(key, embedding, meta)
cache_set(store, enabled, key, embedding, meta) ==
  IF enabled
  THEN {e \in store : e.key # key}
         \cup {[key |-> key, embedding |-> embedding, meta |-> meta]}
  ELSE store

\* get_cache_info()
get_cache_info(store, enabled) == [enabled |-> enabled, cached_embeddings |-> Cardinality(store)]

\* clear_cache()
clear_cache(store) == [deleted |-> Cardinality(store)]

\* ------------------------------------------------------ face.py: embed, compare
ModelNotLoaded == <<"Face model not loaded. Call load_model() first.">>

\* faulty variant: the check of the loaded model left out
ModelLoaded_Unchecked(fa) == TRUE

\* _fa is not None
ModelLoaded(fa) == fa # 0

\* faulty variant: a computed embedding never stored
StoresEmbedding_Never(use_cache) == FALSE

\* if use_cache: face_cache.cache_set(...)
StoresEmbedding(use_cache) == use_cache

\* what embed and compare hand back: the exception raised ("" if none) with
\* its message, the value and meta returned, the cache afterwards, and
\* whether the detector ran and whether face_cache was called
Outcome(raised, message, value, meta, store, inferred, touched) ==
  [raised |-> raised, message |-> message, value |-> value, meta |-> meta,
   store |-> store, inferred |-> inferred, touched |-> touched]

\* faulty variant: a stored entry not used
Hit_Never(cached) == FALSE

\* embed: `if cached is not None`
Hit(cached) == cached # <<>>

\* faulty variant: the key made from the image alone
KeyModel_Ignored(name) == ""

\* the model identity embed hands to get_cache_key: _model_name
KeyModel(name) == name

\* faulty variant: the empty result stored like an embedding
AfterNoFace_Stored(store, enabled, key) ==
  cache_set(store, enabled, key, <<>>, Meta(0, <<>>, <<>>, FALSE))

\* embed: the cache after `if not faces: return None, {...}`
AfterNoFace(store, enabled, key) == store

\* embed(image_b64, use_cache) with the module state (fa, name), the cache
\* (store, enabled) and what the detector reports if it is run
embed(fa, name, store, enabled, image_b64, use_cache, faces) ==
  LET key == get_cache_key(image_b64, KeyModel(name))
      cached == IF use_cache THEN cache_get(store, enabled, key) ELSE <<>>
      pixels == _to_bgr(image_b64)
      best == LargestFace(faces)
      vec == best.normed_embedding
      meta == Meta(Len(faces), <<best.bbox>>, <<best.det_score>>, FALSE)
  IN  IF ~ModelLoaded(fa)
      THEN Outcome("RuntimeError", ModelNotLoaded, <<>>, <<>>, store, FALSE, FALSE)
      ELSE IF Hit(cached)
      THEN Outcome("", <<>>, <<cached[1].embedding>>,
                   <<[cached[1].meta EXCEPT !.cached = TRUE]>>, store, FALSE, TRUE)
      ELSE IF pixels.raised # ""
      THEN Outcome(pixels.raised, <<pixels.raised>>, <<>>, <<>>, store, FALSE, use_cache)
      ELSE IF faces = <<>>
      THEN Outcome("", <<>>, <<>>, <<Meta(0, <<>>, <<>>, FALSE)>>,
                   AfterNoFace(store, enabled, key), TRUE, use_cache)
      ELSE Outcome("", <<>>, <<vec>>, <<meta>>,
                   IF StoresEmbedding(use_cache)
                   THEN cache_set(store, enabled, key, vec, meta) ELSE store,
                   TRUE, use_cache)

RSub(x, y) == Rat(x[1] * y[2] - y[1] * x[2], x[2] * y[2])

RMul(x, y) == Rat(x[1] * y[1], x[2] * y[2])

\* np.dot(a, b)
Dot(a, b) == RSum([k \in 1..Len(a) |-> RMul(a[k], b[k])])

\* cosine_distance(a, b)
cosine_distance(a, b) == RSub(<<1, 1>>, Dot(a, b))

\* faulty variant: both_cached taken from the side embedded last
CompareMeta_LastSide(error, a, b, model, cache_used) ==
  [error |-> error, a |-> a, b |-> b, model |-> model, cache_used |-> cache_used,
   both_cached |-> b # <<>> /\ b[1].cached]

\* the meta dict of compare: {"error": ..., **meta} when a side shows no
\* face, else the two sides' meta with model, cache_used and both_cached
CompareMeta(error, a, b, model, cache_used) ==
  [error |-> error, a |-> a, b |-> b, model |-> model, cache_used |-> cache_used,
   both_cached |-> a # <<>> /\ b # <<>> /\ a[1].cached /\ b[1].cached]

\* faulty variant: the failing side not named
ErrorTag_Unnamed(side) == <<"No face found">>

\* compare: the error of a side in which embed found no face
ErrorTag(side) == <<"no face in ", side>>

\* compare(a_b64, b_b64, use_cache)
compare(fa, name, store, enabled, a_b64, b_b64, use_cache, faces_a, faces_b) ==
  LET ea == embed(fa, name, store, enabled, a_b64, use_cache, faces_a)
      eb == embed(fa, name, ea.store, enabled, b_b64, use_cache, faces_b)
      inferred == ea.inferred \/ eb.inferred
      touched == ea.touched \/ eb.touched
  IN  IF ~ModelLoaded(fa)
      THEN Outcome("RuntimeError", ModelNotLoaded, <<>>, <<>>, store, FALSE, FALSE)
      ELSE IF ea.raised # "" THEN ea
      ELSE IF ea.value = <<>>
      THEN Outcome("", <<>>, <<>>,
                   <<CompareMeta(ErrorTag("A"), ea.meta, <<>>, name, use_cache)>>,
                   ea.store, ea.inferred, ea.touched)
      ELSE IF eb.raised # ""
      THEN Outcome(eb.raised, eb.message, <<>>, <<>>, eb.store, inferred, touched)
      ELSE IF eb.value = <<>>
      THEN Outcome("", <<>>, <<>>,
                   <<CompareMeta(ErrorTag("B"), <<>>, eb.meta, name, use_cache)>>,
                   eb.store, inferred, touched)
      ELSE Outcome("", <<>>, <<cosine_distance(ea.value[1], eb.value[1])>>,
                   <<CompareMeta(<<>>, ea.meta, eb.meta, name, use_cache)>>,
                   eb.store, inferred, touched)

\* ---------------------------------------------------- main.py: face endpoints
\* face_embed_endpoint(body), given what face_embed did
face_embed_endpoint(image_b64, out) ==
  IF _strip_data_url(image_b64) = <<>> THEN Failure(<<"Invalid image payload">>)
  ELSE IF out.raised = "RuntimeError" THEN HttpExceptionResponse(503, out.message)
  ELSE IF out.raised # "" THEN global_exception_handler(out.message)
  ELSE IF out.value = <<>>
  THEN [Failure(<<"No face found">>) EXCEPT !.meta = out.meta]
  ELSE [Success EXCEPT !.vector = out.value, !.meta = out.meta]

\* face_compare_endpoint(body), given what face_compare did
face_compare_endpoint(a_b64, b_b64, th, out) ==
  IF _strip_data_url(a_b64) = <<>> THEN Failure(<<"Invalid image payload for a">>)
  ELSE IF _strip_data_url(b_b64) = <<>> THEN Failure(<<"Invalid image payload for b">>)
  ELSE IF out.raised = "RuntimeError" THEN HttpExceptionResponse(503, out.message)
  ELSE IF out.raised # "" THEN global_exception_handler(out.message)
  ELSE IF out.value = <<>>
  THEN [Failure(out.meta[1].error) EXCEPT !.meta = out.meta]
  ELSE [Success EXCEPT !.distance = out.value, !.threshold = <<th>>,
                       !.match = <<RLe(out.value[1], th)>>, !.meta = out.meta]

\* face_load_model_endpoint(body) when load_model raised ValueError
LoadModelUnsupported(model) ==
  Failure(<<"Unsupported model: ", model, ". Supported: ('buffalo_l', 'buffalo_s')">>)

\* face_load_model_endpoint(body) when load_model returned
LoadModelLoaded(model) ==
  [Success EXCEPT !.message = <<"Model '", model, "' loaded successfully">>,
                  !.model = <<model>>]

\* face_load_model_endpoint(body) when load_model raised another exception
LoadModelFailed(exc) == HttpExceptionResponse(500, <<"Failed to load model: ", exc>>)

\* faulty variant: any name accepted
Supported_Unchecked(model) == TRUE

\* load_model: `model not in SUPPORTED_MODELS` raises ValueError
Supported(model) == model \in SUPPORTED_MODELS

\* faulty variant: a loaded model initialized again
SameModelLoaded_Ignored(fa, name, model) == FALSE

\* Skip if same model already loaded
SameModelLoaded(fa, name, model) == fa # 0 /\ name = model

\* faulty variant: the old instance kept until the new one is assigned
Released_AfterInit(fa) == fa

\* Unload existing model if switching: _fa = None
Released(fa) == 0

\* faulty variant: a plain `def` endpoint, which FastAPI runs in its thread pool
RunsOnEventLoop_ThreadPool(endpoint) == endpoint # "face_load_model"

\* faulty variant: /face/embed run in the thread pool
RunsOnEventLoop_EmbedInThreadPool(endpoint) == endpoint # "face_embed"

\* faulty variant: the cache cleared in the thread pool
RunsOnEventLoop_ClearInThreadPool(endpoint) == endpoint # "face_cache_clear"

\* an `async def` endpoint runs on the event loop and holds it until it
\* awaits or returns
RunsOnEventLoop(endpoint) == TRUE

\* a request body; the fields an endpoint does not read are left empty
NoBody ==
  [file_data |-> Base64Text(0, 0, 0), filename |-> <<>>, size |-> 0, image_b64 |-> <<>>,
   a_b64 |-> <<>>, b_b64 |-> <<>>, threshold |-> <<0, 1>>, model |-> ""]

NoResponse == Response("", 0, <<>>, <<>>, <<>>)

\* a request and its answer: what fitz found in its bytes (if it opened
\* them), whether the detector ran and whether face_cache was called
Answer(endpoint, body, response, opened, inferred, touched) ==
  [endpoint |-> endpoint, body |-> body, response |-> response, opened |-> opened,
   inferred |-> inferred, touched |-> touched]

NoRequest == Answer("", NoBody, NoResponse, <<>>, FALSE, FALSE)

\* body.threshold (the default)
Thresholds == {Rat(2, 5)}

\* body.a_b64, body.b_b64
ComparePayloads == {<<>>, <<"A">>, <<"B">>}

\* documents a thumbnail is asked of: no PDF, no page, blank pages
ThumbnailDocs ==
  { [valid |-> TRUE, pages |-> Rep(<<" ">>, n), images |-> <<>>] : n \in 0..1 }
  \cup {[valid |-> FALSE, pages |-> <<>>, images |-> <<>>]}

\* fitz.open: bytes of length 0 are no PDF
OpensAs(size, d) == size = 0 => ~d.valid

\* ------------------------------------------------------------------- state
VARIABLES
  pc,                   \* where process_document_bytes stands
  tesseract_installed,  \* whether the Tesseract executable is present
  filename,             \* the request's filename
  file_size,            \* len(file_bytes)
  pdf_pages,            \* the pages of file_bytes, once fitz has opened them
  native_text,
  page_count,
  embedded_images,
  native_text_stripped,
  images_to_ocr,
  i,                    \* images (or pages) the running loop has handled
  image_texts,
  image_confidences,
  page_images,
  all_texts,
  all_confidences,
  result,               \* what process_document_bytes returned or raised
  ocr_log,              \* every call of ocr_image: the image and what came back
  extract_calls,        \* calls of extract_pdf_text_and_images
  filter_runs,          \* runs of the image filter
  fallbacks_taken,      \* what requests did so far when no image gave text
  _fa,                  \* face.py: the loaded FaceAnalysis instance (0: None)
  _model_name,          \* face.py: the name of the loaded model ("": None)
  cache,                \* face_cache: the stored embeddings, by cache key
  cache_enabled,        \* face_cache: whether the cache is switched on
  loads,                \* the calls of load_model that are initializing a model
  instances_created,    \* FaceAnalysis instances constructed so far
  loop_owner,           \* the handler the event loop is running ("": none)
  last,                 \* the request answered last and its response
  embed_returned,       \* the calls of /face/embed since the last cache clear
  clearing,             \* face_cache: the running clear_cache (<<>>: none)
  embeds                \* face.py: the running embed, past its check (<<>>: none)

vars ==
  <<pc, tesseract_installed, filename, file_size, pdf_pages, native_text, page_count,
    embedded_images, native_text_stripped, images_to_ocr, i, image_texts,
    image_confidences, page_images, all_texts, all_confidences, result, ocr_log,
    extract_calls, filter_runs, fallbacks_taken, _fa, _model_name, cache, cache_enabled,
    loads, instances_created, loop_owner, last, embed_returned, clearing, embeds>>

\* the face subsystem and the request layer
face == <<_fa, _model_name, cache, loads, instances_created, embed_returned>>
service == <<face, cache_enabled, clearing, embeds, loop_owner, last>>

request == <<tesseract_installed, filename, file_size>>
pdf_locals == <<pdf_pages, native_text, page_count, embedded_images, native_text_stripped,
                images_to_ocr>>
embedded_loop == <<image_texts, image_confidences>>
page_loop == <<page_images, all_texts, all_confidences>>
history == <<extract_calls, filter_runs>>

\* the request-local state of process_document_bytes before a request
DocInit ==
  /\ pc = "idle"
  /\ tesseract_installed \in BOOLEAN
  /\ filename = <<>>
  /\ file_size = 0
  /\ pdf_pages = <<>>
  /\ native_text = <<>>
  /\ page_count = 0
  /\ embedded_images = <<>>
  /\ native_text_stripped = <<>>
  /\ images_to_ocr = <<>>
  /\ i = 0
  /\ image_texts = <<>>
  /\ image_confidences = <<>>
  /\ page_images = <<>>
  /\ all_texts = <<>>
  /\ all_confidences = <<>>
  /\ result = NoResult
  /\ ocr_log = <<>>
  /\ extract_calls = 0
  /\ filter_runs = 0
  /\ fallbacks_taken = {}

\* face.py at import: no model loaded; the cache empty; no request served
FaceInit ==
  /\ _fa = 0
  /\ _model_name = ""
  /\ cache = {}
  /\ loads = {}
  /\ instances_created = 0
  /\ loop_owner = ""
  /\ last = NoRequest
  /\ embed_returned = {}
  /\ clearing = <<>>
  /\ embeds = <<>>

Init ==
  /\ DocInit
  /\ FaceInit
  /\ cache_enabled = TRUE

\* a caller (process_upload, process_base64) calls process_document_bytes
Call ==
  /\ pc = "idle"
  /\ \E name \in Filenames, size \in FileSizes :
       /\ filename' = name
       /\ file_size' = size
  /\ pc' = "called"
  /\ UNCHANGED <<tesseract_installed, pdf_locals, i, embedded_loop, page_loop, result,
                 ocr_log, history, fallbacks_taken>>
  /\ UNCHANGED service

\* the size check and the dispatch on the filename
Dispatch ==
  /\ pc = "called"
  /\ IF TooLarge(file_size)
     THEN /\ result' = ErrorDict("File too large")
          /\ pc' = "done"
     ELSE IF is_pdf(filename)
     THEN /\ pc' = "extract"
          /\ UNCHANGED result
     ELSE IF is_image(filename)
     THEN /\ pc' = "ocr_file"
          /\ UNCHANGED result
     ELSE /\ result' = ErrorDict("Unsupported file type")
          /\ pc' = "done"
  /\ UNCHANGED <<request, pdf_locals, i, embedded_loop, page_loop, ocr_log, history,
                 fallbacks_taken>>
  /\ UNCHANGED service

\* extract_pdf_text_and_images, the native-text shortcut and the image filter
ExtractPdf ==
  /\ pc = "extract"
  /\ \E d \in {doc \in Docs : OpensAs(file_size, doc)} :
       LET x == extract_pdf_text_and_images(d)
           stripped == Strip(x.native_text)
       IN  /\ pdf_pages' = d.pages
           /\ extract_calls' = extract_calls + 1
           /\ IF ~d.valid
              THEN \* fitz.open raises on bytes that are no PDF
                   /\ result' = Raised("FileDataError")
                   /\ pc' = "done"
                   /\ UNCHANGED <<native_text, page_count, embedded_images,
                                  native_text_stripped, images_to_ocr, filter_runs>>
              ELSE /\ native_text' = x.native_text
                   /\ page_count' = x.page_count
                   /\ embedded_images' = x.images
                   /\ native_text_stripped' = stripped
                   /\ IF HasMeaningfulNativeText(stripped)
                      THEN /\ result' = DocumentData(x.native_text, x.page_count,
                                                     "native", None)
                           /\ pc' = "done"
                           /\ UNCHANGED <<images_to_ocr, filter_runs>>
                      ELSE /\ images_to_ocr' = ImagesToOcr(x.images)
                           /\ filter_runs' = filter_runs + 1
                           /\ pc' = "ocr_embedded"
                           /\ UNCHANGED result
  /\ UNCHANGED <<request, i, embedded_loop, page_loop, ocr_log, fallbacks_taken>>
  /\ UNCHANGED service

\* one pass of the loop over images_to_ocr
OcrEmbeddedImage ==
  /\ pc = "ocr_embedded"
  /\ i < Len(images_to_ocr)
  /\ \E resp \in OcrResponses(tesseract_installed) :
       LET r == ocr_image(resp)
       IN  /\ ocr_log' = Append(ocr_log, [img |-> images_to_ocr[i + 1], out |-> r])
           /\ IF r.raised # "" /\ ~CaughtPerImage(r.raised)
              THEN /\ result' = Raised(r.raised)
                   /\ pc' = "done"
                   /\ UNCHANGED <<i, embedded_loop>>
              ELSE /\ i' = i + 1
                   /\ IF r.raised = "" /\ Strip(r.text) # <<>>
                      THEN /\ image_texts' = Append(image_texts, r.text)
                           /\ image_confidences' = Append(image_confidences, r.confidence)
                      ELSE UNCHANGED embedded_loop
                   /\ UNCHANGED <<pc, result>>
  /\ UNCHANGED <<request, pdf_locals, page_loop, history, fallbacks_taken>>
  /\ UNCHANGED service

\* after the loop: the merged result, the native text, or the start of
\* ocr_pdf_pages
CombineResults ==
  /\ pc = "ocr_embedded"
  /\ i = Len(images_to_ocr)
  /\ IF image_texts # <<>>
     THEN /\ result' = DocumentData(CombinedText(native_text_stripped, image_texts),
                                    page_count, "native+ocr", Mean(image_confidences))
          /\ pc' = "done"
          /\ UNCHANGED <<i, page_loop, fallbacks_taken>>
     ELSE IF ReturnsNativeText(native_text_stripped)
     THEN /\ result' = DocumentData(native_text, page_count, "native", None)
          /\ pc' = "done"
          /\ fallbacks_taken' = fallbacks_taken \cup {"native"}
          /\ UNCHANGED <<i, page_loop>>
     ELSE /\ page_images' = pdf_to_images(pdf_pages)
          /\ all_texts' = <<>>
          /\ all_confidences' = <<>>
          /\ i' = 0
          /\ pc' = "ocr_pages"
          /\ fallbacks_taken' = fallbacks_taken \cup {"ocr"}
          /\ UNCHANGED result
  /\ UNCHANGED <<request, pdf_locals, embedded_loop, ocr_log, history>>
  /\ UNCHANGED service

\* one pass of the loop of ocr_pdf_pages
OcrPage ==
  /\ pc = "ocr_pages"
  /\ i < Len(page_images)
  /\ \E resp \in OcrResponses(tesseract_installed) :
       LET r == ocr_image(resp)
       IN  /\ ocr_log' = Append(ocr_log, [img |-> page_images[i + 1], out |-> r])
           /\ IF r.raised # ""
              THEN /\ result' = Raised(r.raised)
                   /\ pc' = "done"
                   /\ UNCHANGED <<i, all_texts, all_confidences>>
              ELSE /\ i' = i + 1
                   /\ IF Strip(r.text) # <<>>
                      THEN /\ all_texts' = Append(all_texts, r.text)
                           /\ all_confidences' = Append(all_confidences, r.confidence)
                      ELSE UNCHANGED <<all_texts, all_confidences>>
                   /\ UNCHANGED <<pc, result>>
  /\ UNCHANGED <<request, pdf_locals, embedded_loop, page_images, history,
                 fallbacks_taken>>
  /\ UNCHANGED service

\* ocr_pdf_pages returns and process_document_bytes returns its result
OcrPdfPagesReturn ==
  /\ pc = "ocr_pages"
  /\ i = Len(page_images)
  /\ result' = DocumentData(Join(<<"\n", "\n">>, all_texts), Len(page_images), "ocr",
                            PagesConfidence(all_confidences))
  /\ pc' = "done"
  /\ UNCHANGED <<request, pdf_locals, i, embedded_loop, page_loop, ocr_log, history,
                 fallbacks_taken>>
  /\ UNCHANGED service

\* the image path: OCR of the whole file
OcrImageFile ==
  /\ pc = "ocr_file"
  /\ \E resp \in OcrResponses(tesseract_installed) :
       LET r == ocr_image(resp)
       IN  /\ ocr_log' = Append(ocr_log, [img |-> Image("file", 1, file_size), out |-> r])
           /\ result' = IF r.raised # "" THEN Raised(r.raised)
                        ELSE DocumentData(r.text, 1, "ocr", r.confidence)
  /\ pc' = "done"
  /\ UNCHANGED <<request, pdf_locals, i, embedded_loop, page_loop, history,
                 fallbacks_taken>>
  /\ UNCHANGED service

Next ==
  \/ Call
  \/ Dispatch
  \/ ExtractPdf
  \/ OcrEmbeddedImage
  \/ CombineResults
  \/ OcrPage
  \/ OcrPdfPagesReturn
  \/ OcrImageFile

Spec == Init /\ [][Next]_vars

\* The service takes the next request once one has been answered.  Nothing
\* of a request outlives it but the record of the fallbacks taken.
NextRequest ==
  /\ pc = "done"
  /\ pc' = "idle"
  /\ filename' = <<>>
  /\ file_size' = 0
  /\ pdf_pages' = <<>>
  /\ native_text' = <<>>
  /\ page_count' = 0
  /\ embedded_images' = <<>>
  /\ native_text_stripped' = <<>>
  /\ images_to_ocr' = <<>>
  /\ i' = 0
  /\ image_texts' = <<>>
  /\ image_confidences' = <<>>
  /\ page_images' = <<>>
  /\ all_texts' = <<>>
  /\ all_confidences' = <<>>
  /\ result' = NoResult
  /\ ocr_log' = <<>>
  /\ extract_calls' = 0
  /\ filter_runs' = 0
  /\ UNCHANGED <<tesseract_installed, fallbacks_taken>>
  /\ UNCHANGED service

NextSeq ==
  \/ Next
  \/ NextRequest

\* one request after another
SeqSpec == Init /\ [][NextSeq]_vars

\* ------------------------------------------------------ the service: requests
\* Every endpoint is an `async def`: its handler starts when the event loop
\* is free and holds the loop until it returns, for it awaits nothing that
\* suspends it.

doc_locals == <<pdf_locals, i, embedded_loop, page_loop, ocr_log, history, fallbacks_taken>>

\* process_base64 up to its call of process_document_bytes
ProcessBase64Begin(name) ==
  /\ loop_owner = ""
  /\ pc = "idle"
  /\ \E data \in FileData :
       LET decoded == b64decode(data)
           body == [NoBody EXCEPT !.file_data = data, !.filename = name]
       IN  IF decoded.raised
           THEN /\ last' = Answer("process_base64", body,
                                  Failure(<<"Invalid base64 encoding">>), <<>>, FALSE, FALSE)
                /\ UNCHANGED <<pc, filename, file_size, loop_owner>>
           ELSE /\ last' = Answer("process_base64", body, NoResponse, <<>>, FALSE, FALSE)
                /\ filename' = name
                /\ file_size' = decoded.size
                /\ pc' = "called"
                /\ loop_owner' = "process_base64"
  /\ UNCHANGED <<tesseract_installed, doc_locals, result, face, cache_enabled, clearing, embeds>>

\* process_base64 after process_document_bytes: the response; the locals of
\* the request are gone
ProcessBase64Return ==
  /\ loop_owner = "process_base64"
  /\ pc = "done"
  /\ last' = [last EXCEPT
                !.response = process_base64_return(result),
                !.opened = IF extract_calls = 0 THEN <<>>
                           ELSE <<[valid |-> result # Raised("FileDataError"),
                                   pages |-> page_count]>>]
  /\ loop_owner' = ""
  /\ pc' = "idle"
  /\ filename' = <<>>
  /\ file_size' = 0
  /\ pdf_pages' = <<>>
  /\ native_text' = <<>>
  /\ page_count' = 0
  /\ embedded_images' = <<>>
  /\ native_text_stripped' = <<>>
  /\ images_to_ocr' = <<>>
  /\ i' = 0
  /\ image_texts' = <<>>
  /\ image_confidences' = <<>>
  /\ page_images' = <<>>
  /\ all_texts' = <<>>
  /\ all_confidences' = <<>>
  /\ result' = NoResult
  /\ ocr_log' = <<>>
  /\ extract_calls' = 0
  /\ filter_runs' = 0
  /\ UNCHANGED <<tesseract_installed, fallbacks_taken, face, cache_enabled, clearing, embeds>>

docs == <<pc, request, doc_locals, result>>

\* generate_pdf_thumbnail(request)
GeneratePdfThumbnail ==
  /\ loop_owner = ""
  /\ \E data \in FileData, size \in ThumbnailSizes :
       \E pix \in Pixmaps(size), d \in {doc \in ThumbnailDocs : OpensAs(b64decode(data).size, doc)} :
         last' = Answer("generate_pdf_thumbnail",
                        [NoBody EXCEPT !.file_data = data, !.size = size],
                        generate_pdf_thumbnail(data, d, pix),
                        IF b64decode(data).raised THEN <<>>
                        ELSE <<[valid |-> d.valid, pages |-> Len(d.pages)]>>,
                        FALSE, FALSE)
  /\ UNCHANGED <<docs, face, cache_enabled, clearing, embeds, loop_owner>>

\* face_embed_endpoint(body)
FaceEmbed(images) ==
  /\ loop_owner = ""
  /\ \E image \in images :
       LET b64 == _strip_data_url(image)
       IN  \E faces \in Detections(_model_name, b64) :
             LET out == embed(_fa, _model_name, cache, cache_enabled, b64, TRUE, faces)
                 called == b64 # <<>>
             IN  /\ last' = Answer("face_embed", [NoBody EXCEPT !.image_b64 = image],
                                   face_embed_endpoint(image, out), <<>>,
                                   called /\ out.inferred, called /\ out.touched)
                 /\ cache' = IF called THEN out.store ELSE cache
  /\ UNCHANGED <<docs, _fa, _model_name, loads, instances_created, cache_enabled, clearing, embeds,
                 loop_owner>>

\* face_compare_endpoint(body)
FaceCompare(images, thresholds) ==
  /\ loop_owner = ""
  /\ \E a \in images, b \in images, th \in thresholds :
       \E faces_a \in Detections(_model_name, _strip_data_url(a)),
          faces_b \in Detections(_model_name, _strip_data_url(b)) :
         LET out == compare(_fa, _model_name, cache, cache_enabled, _strip_data_url(a),
                            _strip_data_url(b), TRUE, faces_a, faces_b)
             called == _strip_data_url(a) # <<>> /\ _strip_data_url(b) # <<>>
         IN  /\ last' = Answer("face_compare",
                               [NoBody EXCEPT !.a_b64 = a, !.b_b64 = b, !.threshold = th],
                               face_compare_endpoint(a, b, th, out), <<>>,
                               called /\ out.inferred, called /\ out.touched)
             /\ cache' = IF called THEN out.store ELSE cache
  /\ UNCHANGED <<docs, _fa, _model_name, loads, instances_created, embed_returned,
                 cache_enabled, clearing, embeds, loop_owner>>

\* faulty variant: the handle not looked at
get_model_info_AlwaysLoaded(fa, name) ==
  [loaded |-> TRUE, model |-> IF name = "" THEN <<>> ELSE <<name>>]

\* get_model_info()
get_model_info(fa, name) ==
  [loaded |-> fa # 0, model |-> IF name = "" THEN <<>> ELSE <<name>>]

\* face_model_info()
FaceModelInfo ==
  /\ loop_owner = ""
  /\ last' = Answer("face_model_info", NoBody,
                    [Success EXCEPT !.data = <<get_model_info(_fa, _model_name)>>],
                    <<>>, FALSE, FALSE)
  /\ UNCHANGED <<docs, face, cache_enabled, clearing, embeds, loop_owner>>

\* health_check(): face_model_loaded and face_model are the pair that
\* get_model_info returns
HealthCheck ==
  /\ loop_owner = ""
  /\ LET model_info == get_model_info(_fa, _model_name)
     IN  last' = Answer("health_check", NoBody,
                        [Success EXCEPT !.data = <<[loaded |-> model_info.loaded,
                                                    model |-> model_info.model]>>],
                        <<>>, FALSE, FALSE)
  /\ UNCHANGED <<docs, face, cache_enabled, clearing, embeds, loop_owner>>

\* face_cache_info()
FaceCacheInfo ==
  /\ loop_owner = ""
  /\ last' = Answer("face_cache_info", NoBody,
                    [Success EXCEPT !.data = <<get_cache_info(cache, cache_enabled)>>],
                    <<>>, FALSE, TRUE)
  /\ UNCHANGED <<docs, face, cache_enabled, clearing, embeds, loop_owner>>

\* faulty variant: the result of clear_cache not passed on
face_cache_clear_NoCount(cleared) ==
  [Success EXCEPT !.message = <<"Cache cleared">>, !.data = <<[deleted |-> 0]>>]

\* face_cache_clear(), given what clear_cache returned
face_cache_clear(cleared) ==
  [Success EXCEPT !.message = <<"Cache cleared">>, !.data = <<cleared>>]

\* face_cache_clear()
FaceCacheClear ==
  /\ loop_owner = ""
  /\ last' = Answer("face_cache_clear", NoBody, face_cache_clear(clear_cache(cache)),
                    <<>>, FALSE, TRUE)
  /\ cache' = {}
  /\ UNCHANGED <<docs, _fa, _model_name, loads, instances_created, cache_enabled, clearing, embeds,
                 loop_owner>>

\* face_load_model_endpoint(body) up to the initialization of the model:
\* the name checked, a loaded model of the same name kept, another one
\* released, FaceAnalysis(name=model) begun
FaceLoadModelBegin ==
  /\ loop_owner = ""
  /\ \E model \in ModelNames :
       LET body == [NoBody EXCEPT !.model = model]
       IN  IF ~Supported(model)
           THEN /\ last' = Answer("face_load_model", body, LoadModelUnsupported(model),
                                  <<>>, FALSE, FALSE)
                /\ UNCHANGED <<face, loop_owner>>
           ELSE IF SameModelLoaded(_fa, _model_name, model)
           THEN /\ last' = Answer("face_load_model", body, LoadModelLoaded(model),
                                  <<>>, FALSE, FALSE)
                /\ UNCHANGED <<face, loop_owner>>
           ELSE /\ instances_created < MaxInstances
                /\ _fa' = IF _fa # 0 THEN Released(_fa) ELSE _fa
                /\ _model_name' = IF _fa # 0 /\ Released(_fa) = 0 THEN "" ELSE _model_name
                /\ instances_created' = instances_created + 1
                /\ loads' = loads \cup
                     {[model |-> model, fa |-> instances_created + 1,
                       on_loop |-> RunsOnEventLoop("face_load_model")]}
                /\ loop_owner' = IF RunsOnEventLoop("face_load_model")
                                 THEN "face_load_model" ELSE ""
                /\ last' = Answer("face_load_model", body, NoResponse, <<>>, FALSE, FALSE)
                /\ UNCHANGED <<cache, embed_returned>>
  /\ UNCHANGED <<docs, cache_enabled, clearing, embeds>>

\* faulty variant: the instance assigned before prepare() has returned
Assigned_BeforePrepare(succeeded) == TRUE

\* load_model: `_fa = fa` and `_model_name = model` are reached only when
\* FaceAnalysis(name=model) and fa.prepare() have returned
Assigned(succeeded) == succeeded

\* the initialization ends: FaceAnalysis and prepare() succeeded and the
\* instance and its name are assigned, or one of them raised
FaceLoadModelFinish ==
  /\ \E load \in loads, succeeded \in BOOLEAN :
       /\ loads' = loads \ {load}
       /\ loop_owner' = IF load.on_loop THEN "" ELSE loop_owner
       /\ IF Assigned(succeeded)
          THEN /\ _fa' = load.fa
               /\ _model_name' = load.model
          ELSE UNCHANGED <<_fa, _model_name>>
       /\ last' = Answer("face_load_model", [NoBody EXCEPT !.model = load.model],
                         IF succeeded THEN LoadModelLoaded(load.model)
                         ELSE LoadModelFailed("RuntimeError"),
                         <<>>, FALSE, FALSE)
  /\ UNCHANGED <<docs, cache, instances_created, embed_returned, cache_enabled, clearing, embeds>>

\* the document endpoints, one request at a time
ApiNext ==
  \/ \E name \in Filenames : ProcessBase64Begin(name)
  \/ Dispatch
  \/ ExtractPdf
  \/ OcrEmbeddedImage
  \/ CombineResults
  \/ OcrPage
  \/ OcrPdfPagesReturn
  \/ OcrImageFile
  \/ ProcessBase64Return
  \/ GeneratePdfThumbnail

ApiSpec == Init /\ [][ApiNext]_vars

\* the service with its configuration read
ServiceInit ==
  /\ DocInit
  /\ FaceInit
  /\ cache_enabled \in BOOLEAN

\* all endpoints; the documents sent are images and unsupported files
ServiceNext ==
  \/ \E name \in OtherFilenames : ProcessBase64Begin(name)
  \/ Dispatch
  \/ OcrImageFile
  \/ ProcessBase64Return
  \/ GeneratePdfThumbnail
  \/ FaceEmbed(ImagePayloads) /\ UNCHANGED embed_returned
  \/ FaceCompare(ComparePayloads, Thresholds)
  \/ FaceModelInfo
  \/ FaceCacheInfo
  \/ FaceCacheClear /\ UNCHANGED embed_returned
  \/ FaceLoadModelBegin
  \/ FaceLoadModelFinish

ServiceSpec == ServiceInit /\ [][ServiceNext]_vars

\* the record of the calls of embed that /face/embed made with a loaded model
\* since the cache was last cleared: per cache key, the vector the first call
\* returned (<<>>: none) and whether the key was used once or more often
RecordEmbed ==
  LET key == get_cache_key(_strip_data_url(last'.body.image_b64), _model_name)
      called == _fa # 0 /\ key[1] # <<>>
      seen == {e \in embed_returned : e.key = key}
  IN  embed_returned' =
        IF ~called THEN embed_returned
        ELSE IF seen = {}
        THEN embed_returned \cup {[key |-> key, first |-> last'.response.vector,
                                   calls |-> 1]}
        ELSE (embed_returned \ seen) \cup {[e EXCEPT !.calls = 2] : e \in seen}

\* the images sent to /face/embed: two with faces, one of them with and
\* without a data URL prefix, and one without a face
CachePayloads == {<<"d", "a", "t", "a", ":", ",", "A">>, <<"A">>, <<"B">>, <<"C">>}

CacheInit ==
  /\ ServiceInit
  /\ tesseract_installed

\* /face/embed, /face/cache/clear, /face/cache/info and /face/load-model,
\* with the calls of /face/embed recorded
CacheNext ==
  \/ FaceEmbed(CachePayloads) /\ RecordEmbed
  \/ FaceCacheClear /\ embed_returned' = {}
  \/ FaceCacheInfo
  \/ FaceLoadModelBegin
  \/ FaceLoadModelFinish

CacheSpec == CacheInit /\ [][CacheNext]_vars

\* face_cache_clear() begins: clear_cache is called with the store as it is
FaceCacheClearBegin ==
  /\ loop_owner = ""
  /\ clearing = <<>>
  /\ clearing' = <<[store |-> cache, on_loop |-> RunsOnEventLoop("face_cache_clear")]>>
  /\ loop_owner' = IF RunsOnEventLoop("face_cache_clear") THEN "face_cache_clear" ELSE ""
  /\ last' = Answer("face_cache_clear", NoBody, NoResponse, <<>>, FALSE, TRUE)
  /\ UNCHANGED <<docs, face, cache_enabled, embeds>>

\* clear_cache removes one entry of the store
FaceCacheClearEntry ==
  /\ clearing # <<>>
  /\ \E e \in cache : cache' = cache \ {e}
  /\ UNCHANGED <<docs, _fa, _model_name, loads, instances_created, embed_returned,
                 cache_enabled, clearing, embeds, loop_owner, last>>

\* clear_cache has removed every entry and returns; face_cache_clear answers
FaceCacheClearReturn ==
  /\ clearing # <<>>
  /\ cache = {}
  /\ last' = Answer("face_cache_clear", NoBody,
                    face_cache_clear(clear_cache(clearing[1].store)), <<>>, FALSE, TRUE)
  /\ clearing' = <<>>
  /\ loop_owner' = IF clearing[1].on_loop THEN "" ELSE loop_owner
  /\ UNCHANGED <<docs, face, cache_enabled, embeds>>

\* the images sent to /face/embed while the cache is cleared
ClearPayloads == {<<"A">>, <<"C">>}

ClearInit ==
  /\ CacheInit
  /\ cache_enabled

\* clear_cache entry by entry, with /face/embed and /face/cache/info as the
\* readers of the store
ClearNext ==
  \/ FaceCacheClearBegin
  \/ FaceCacheClearEntry
  \/ FaceCacheClearReturn
  \/ FaceEmbed(ClearPayloads) /\ UNCHANGED embed_returned
  \/ FaceCacheInfo
  \/ FaceLoadModelBegin
  \/ FaceLoadModelFinish

ClearSpec == ClearInit /\ [][ClearNext]_vars

\* -------------------------------------------------- ocr_image, call by call
MaxRows == 2

\* rows of image_to_data: a blank row, rows with the lowest, the highest and a
\* middle confidence, and a row without confidence
OcrTokens ==
  {Token(<<" ">>, 95), Token(<<"y">>, 0), Token(<<"q">>, -1), Token(<<"z">>, 100),
   Token(<<"w">>, 50)}

\* img.size of the images handed to ocr_image: the sides from one pixel to
\* three times the maximum, the maximum and its neighbours among them
OcrSides ==
  {1, 2, OCR_IMAGE_MAX_DIMENSION \div 2, OCR_IMAGE_MAX_DIMENSION,
   OCR_IMAGE_MAX_DIMENSION + 1, 2 * OCR_IMAGE_MAX_DIMENSION,
   2 * OCR_IMAGE_MAX_DIMENSION + 1}

\* what the OCR capability does in one call, with the rows it may report
OcrCallResponses(installed) ==
  {[kind |-> "UnidentifiedImageError", data |-> <<>>]}
  \cup (IF installed
        THEN {[kind |-> "TesseractError", data |-> <<>>]}
             \cup {[kind |-> "data", data |-> d] : d \in SeqUpTo(OcrTokens, MaxRows)}
        ELSE {[kind |-> "TesseractNotFoundError", data |-> <<>>]})

\* ocr_image(image_bytes): resize_image_for_ocr, then Tesseract on what it
\* handed back. Bytes that are no image raise in Image.open before any
\* resize; a size with a side of 0 pixels gives no image Tesseract can read.
\* One call is followed from each start.
OcrImage ==
  /\ pc = "idle"
  /\ ocr_log = <<>>
  /\ \E width \in OcrSides, height \in OcrSides,
        resp \in OcrCallResponses(tesseract_installed) :
       LET img == ImageFile(width, height)
           resized == resize_image_for_ocr(img, OCR_IMAGE_MAX_DIMENSION)
           empty == resized.width = 0 \/ resized.height = 0
           opened == resp.kind # "UnidentifiedImageError"
       IN  \E out \in IF opened /\ empty
                       THEN {[raised |-> "ValueError", text |-> <<>>, confidence |-> None],
                             [raised |-> "RuntimeError: Tesseract OCR failed",
                              text |-> <<>>, confidence |-> None]}
                       ELSE {ocr_image(resp)} :
             ocr_log' = <<[img |-> img,
                           resized |-> IF opened THEN <<resized>> ELSE <<>>,
                           rows |-> resp.data,
                           out |-> out]>>
  /\ UNCHANGED <<pc, request, pdf_locals, i, embedded_loop, page_loop, result, history,
                 fallbacks_taken, service>>

OcrSpec == Init /\ [][OcrImage]_vars

\* face_embed_endpoint(body) up to the detection: the payload and the loaded
\* model checked, the cache key made from _model_name and looked up. A
\* refusal and a hit are answered at once; a miss goes on to run the detector.
FaceEmbedCheck ==
  /\ loop_owner = ""
  /\ embeds = <<>>
  /\ \E image \in ClearPayloads :
       LET b64 == _strip_data_url(image)
           key == get_cache_key(b64, KeyModel(_model_name))
           cached == cache_get(cache, cache_enabled, key)
           out == embed(_fa, _model_name, cache, cache_enabled, b64, TRUE, <<>>)
           body == [NoBody EXCEPT !.image_b64 = image]
       IN  IF b64 = <<>> \/ ~ModelLoaded(_fa) \/ Hit(cached)
           THEN /\ last' = Answer("face_embed", body, face_embed_endpoint(image, out),
                                  <<>>, FALSE, b64 # <<>> /\ out.touched)
                /\ UNCHANGED <<embeds, loop_owner>>
           ELSE /\ embeds' = <<[image |-> image, key |-> key, fa |-> _fa,
                                 on_loop |-> RunsOnEventLoop("face_embed")]>>
                /\ loop_owner' = IF RunsOnEventLoop("face_embed") THEN "face_embed" ELSE ""
                /\ last' = Answer("face_embed", body, NoResponse, <<>>, FALSE, TRUE)
  /\ UNCHANGED <<docs, face, cache_enabled, clearing>>

\* the rest of embed: _fa.get(bgr) on the instance _fa holds now, the largest
\* face chosen, the embedding stored under the key made before, the answer.
\* `_fa.get` on None raises AttributeError, which the handler of Exception
\* answers.
FaceEmbedInfer ==
  /\ embeds # <<>>
  /\ LET call == embeds[1]
         b64 == _strip_data_url(call.image)
         body == [NoBody EXCEPT !.image_b64 = call.image]
     IN  IF _fa = 0
         THEN /\ last' = Answer("face_embed", body,
                                global_exception_handler(
                                  <<"'NoneType' object has no attribute 'get'">>),
                                <<>>, FALSE, TRUE)
              /\ cache' = cache
         ELSE \E faces \in Detections(_model_name, b64) :
                LET best == LargestFace(faces)
                    vec == best.normed_embedding
                    meta == Meta(Len(faces), <<best.bbox>>, <<best.det_score>>, FALSE)
                    store == IF faces = <<>>
                             THEN AfterNoFace(cache, cache_enabled, call.key)
                             ELSE IF StoresEmbedding(TRUE)
                             THEN cache_set(cache, cache_enabled, call.key, vec, meta)
                             ELSE cache
                    out == IF faces = <<>>
                           THEN Outcome("", <<>>, <<>>, <<Meta(0, <<>>, <<>>, FALSE)>>,
                                        store, TRUE, TRUE)
                           ELSE Outcome("", <<>>, <<vec>>, <<meta>>, store, TRUE, TRUE)
                IN  /\ last' = Answer("face_embed", body,
                                      face_embed_endpoint(call.image, out),
                                      <<>>, TRUE, TRUE)
                    /\ cache' = store
  /\ embeds' = <<>>
  /\ loop_owner' = IF embeds[1].on_loop THEN "" ELSE loop_owner
  /\ UNCHANGED <<docs, _fa, _model_name, loads, instances_created, embed_returned,
                 cache_enabled, clearing>>

\* /face/embed in its two parts, with the loads, compares and clears that
\* ask for the event loop meanwhile
EmbedNext ==
  \/ FaceEmbedCheck
  \/ FaceEmbedInfer
  \/ FaceLoadModelBegin
  \/ FaceLoadModelFinish
  \/ FaceCompare(ClearPayloads, Thresholds)
  \/ FaceCacheClear /\ UNCHANGED embed_returned

EmbedSpec == ClearInit /\ [][EmbedNext]_vars

\* the loads that succeed, fail or are refused, with /health, /face/model,
\* /face/embed (its calls recorded) and /face/compare asked between them
ModelNext ==
  \/ FaceLoadModelBegin
  \/ FaceLoadModelFinish
  \/ FaceModelInfo
  \/ HealthCheck
  \/ FaceEmbed({<<"A">>, <<"B">>}) /\ RecordEmbed
  \/ FaceCompare({<<"A">>, <<"B">>}, Thresholds)

ModelSpec == CacheInit /\ [][ModelNext]_vars

\* the images sent to /face/compare: two with faces and one without
CompareImages == {<<"A">>, <<"B">>, <<"C">>}

\* body.threshold: zero and the default
CompareThresholds == {Rat(0, 1), Rat(2, 5)}

\* /face/compare with the loads and the clears of the cache around it
CompareNext ==
  \/ FaceCompare(CompareImages, CompareThresholds)
  \/ FaceCacheClear /\ UNCHANGED embed_returned
  \/ FaceLoadModelBegin
  \/ FaceLoadModelFinish

CompareSpec == CacheInit /\ [][CompareNext]_vars

\* ------------------------------------------------------------ properties
\* the images of the log's entries, and the entries of one source
LogImages(log) == [k \in 1..Len(log) |-> log[k].img]

RECURSIVE EntriesFrom(_, _)
EntriesFrom(log, src) ==
  IF log = <<>> THEN <<>>
  ELSE IF Head(log).img.src = src THEN <<Head(log)>> \o EntriesFrom(Tail(log), src)
  ELSE EntriesFrom(Tail(log), src)

\* a PDF request whose bytes fitz has opened and read
PdfExtracted == extract_calls = 1 /\ ~(result.kind = "raised" /\ result.error = "FileDataError")

\* C1: a PDF whose trimmed native text is longer than NATIVE_TEXT_THRESHOLD is
\* answered at once with method native, no confidence and the untrimmed
\* native text, and ocr_image is never called for it; a trimmed length of
\* exactly the threshold goes on to the image filter instead.
C1_NativeShortcut ==
  /\ (PdfExtracted /\ Len(Strip(native_text)) > NATIVE_TEXT_THRESHOLD) =>
       /\ pc = "done"
       /\ result = DocumentData(native_text, page_count, "native", None)
       /\ ocr_log = <<>>
       /\ filter_runs = 0
  /\ (PdfExtracted /\ Len(Strip(native_text)) = NATIVE_TEXT_THRESHOLD) =>
       /\ filter_runs = 1
       /\ (pc = "done" /\ \E k \in 1..Len(embedded_images) :
                            embedded_images[k].size >= MIN_IMAGE_SIZE_FOR_OCR)
            => ocr_log # <<>>

\* a long native text with whitespace around it, in a PDF that also holds an
\* image large enough for OCR
C1_Witness ==
  /\ pc = "done"
  /\ Len(Strip(native_text)) > NATIVE_TEXT_THRESHOLD
  /\ native_text # Strip(native_text)
  /\ \E k \in 1..Len(embedded_images) : embedded_images[k].size >= MIN_IMAGE_SIZE_FOR_OCR
  /\ result.method = "native"

\* the entries of embedded images that gave text which is not blank
RECURSIVE WithText(_)
WithText(log) ==
  IF log = <<>> THEN <<>>
  ELSE IF Head(log).out.raised = "" /\ Strip(Head(log).out.text) # <<>>
       THEN <<Head(log)>> \o WithText(Tail(log))
       ELSE WithText(Tail(log))

Contributing == WithText(EntriesFrom(ocr_log, "embedded"))

\* C2: when at least one OCR'd embedded image gave text that is not blank,
\* the answer is method native+ocr; its text is the trimmed native text, the
\* separator and the contributing image texts joined by a blank line in OCR
\* order, without the separator exactly when the trimmed native text is
\* empty; its confidence is the mean of the contributing images' confidences.
C2_MergedResult ==
  (pc = "done" /\ Contributing # <<>>) =>
    LET texts == [k \in 1..Len(Contributing) |-> Contributing[k].out.text]
        confidences == [k \in 1..Len(Contributing) |-> Contributing[k].out.confidence]
        trimmed == Strip(native_text)
        joined == Join(<<"\n", "\n">>, texts)
    IN  /\ result.kind = "data"
        /\ result.method = "native+ocr"
        /\ result.page_count = page_count
        /\ result.text = IF trimmed = <<>> THEN joined
                         ELSE trimmed \o ImageTextSeparator \o joined
        /\ result.confidence # None
        /\ result.confidence = RDivInt(RSum(confidences), Len(confidences))

\* three images OCR'd, one of them failed or blank, the two others with
\* text of different confidence, and native text present
C2_Witness ==
  /\ pc = "done"
  /\ Len(EntriesFrom(ocr_log, "embedded")) = 3
  /\ Len(Contributing) = 2
  /\ Contributing[1].out.confidence # Contributing[2].out.confidence
  /\ Strip(native_text) # <<>>
  /\ result.method = "native+ocr"

\* the request has left the loop over images_to_ocr with no image text
NoUsableImageText ==
  /\ PdfExtracted
  /\ filter_runs = 1
  /\ pc \in {"ocr_pages", "done"}
  /\ Contributing = <<>>

\* C3 as stated: over all requests served, one and the same fallback is
\* taken at the no-usable-image-text step.
C3_OneFallbackOnly == Cardinality(fallbacks_taken) <= 1

\* C3 as amended: at the no-usable-image-text step the trimmed native text
\* decides.  Not empty: the untrimmed native text is returned as method
\* native without confidence and no page is OCR'd.  Empty: ocr_pdf_pages
\* runs over every page and the answer, if OCR does not raise, is method ocr.
C3_FallbackByNativeText ==
  NoUsableImageText =>
    IF Strip(native_text) # <<>>
    THEN /\ pc = "done"
         /\ result = DocumentData(native_text, page_count, "native", None)
         /\ EntriesFrom(ocr_log, "page") = <<>>
    ELSE \/ pc = "ocr_pages"
         \/ result.kind = "raised"
         \/ /\ result.kind = "data"
            /\ result.method = "ocr"
            /\ result.confidence # None
            /\ Len(EntriesFrom(ocr_log, "page")) = page_count

\* a request answered by full-page OCR after an earlier one was answered
\* with its native text at the same step
C3_Witness ==
  /\ fallbacks_taken = {"native", "ocr"}
  /\ NoUsableImageText
  /\ pc = "done"
  /\ result.method = "ocr"
  /\ page_count > 0

\* C4: every DocumentData returned, on whichever path, carries a confidence
\* if and only if its method is not native; method ocr carries one also when
\* OCR found no text at all.
C4_ConfidenceIffNotNative ==
  result.kind = "data" =>
    /\ result.method \in {"native", "ocr", "native+ocr"}
    /\ (result.confidence # None) <=> (result.method # "native")
    /\ (result.method = "ocr" /\ result.text = <<>>) => result.confidence = <<0, 1>>

\* full-page OCR that ran over a page and found no text
C4_Witness ==
  /\ pc = "done"
  /\ result.kind = "data"
  /\ result.method = "ocr"
  /\ result.text = <<>>
  /\ Len(EntriesFrom(ocr_log, "page")) >= 1

\* the embedded images handed to ocr_image so far, in call order
EmbeddedOcrd == LogImages(EntriesFrom(ocr_log, "embedded"))

\* positions of the embedded images of at least MIN_IMAGE_SIZE_FOR_OCR bytes
EligiblePositions ==
  {k \in 1..Len(embedded_images) : embedded_images[k].size >= MIN_IMAGE_SIZE_FOR_OCR}

\* the loop over images_to_ocr has run to its end
EmbeddedLoopOver == PdfExtracted /\ filter_runs = 1 /\ pc \in {"ocr_pages", "done"}

\* C5: the embedded images handed to ocr_image are images of the document of
\* at least MIN_IMAGE_SIZE_FOR_OCR bytes (never a smaller one), taken in
\* extraction order with no eligible image passed over, and once the loop is
\* over they are the first MAX_IMAGES_TO_OCR eligible ones (all of them if
\* there are fewer).
C5_EligibleImagesOcrd ==
  /\ \A k \in 1..Len(EmbeddedOcrd) :
       /\ EmbeddedOcrd[k].id \in EligiblePositions
       /\ EmbeddedOcrd[k] = embedded_images[EmbeddedOcrd[k].id]
       /\ \A j \in 1..(k - 1) : EmbeddedOcrd[j].id < EmbeddedOcrd[k].id
       /\ \A m \in EligiblePositions :
            m < EmbeddedOcrd[k].id => \E j \in 1..(k - 1) : EmbeddedOcrd[j].id = m
  /\ EmbeddedLoopOver =>
       Len(EmbeddedOcrd) = IF Cardinality(EligiblePositions) > MAX_IMAGES_TO_OCR
                           THEN MAX_IMAGES_TO_OCR
                           ELSE Cardinality(EligiblePositions)

\* a small image first and three images of exactly the minimum size after
\* it: the three are OCR'd
C5_Witness ==
  /\ pc = "done"
  /\ Len(embedded_images) = 4
  /\ EligiblePositions = {2, 3, 4}
  /\ \A k \in EligiblePositions : embedded_images[k].size = MIN_IMAGE_SIZE_FOR_OCR
  /\ [k \in 1..Len(EmbeddedOcrd) |-> EmbeddedOcrd[k].id] = <<2, 3, 4>>

\* C6 as stated: ocr_image is called on at most MAX_IMAGES_TO_OCR images in
\* the course of one request.
C6_AtMostMaxOcrCalls == Len(ocr_log) <= MAX_IMAGES_TO_OCR

\* C6 as amended: at most MAX_IMAGES_TO_OCR embedded images are OCR'd; the
\* full-page fallback OCRs each page at most once on top of that, the image
\* path the file once; so a request makes at most MAX_IMAGES_TO_OCR +
\* page_count calls.
C6_OcrCallBound ==
  LET pages == LogImages(EntriesFrom(ocr_log, "page"))
      files == EntriesFrom(ocr_log, "file")
  IN  /\ Len(EmbeddedOcrd) <= MAX_IMAGES_TO_OCR
      /\ Len(pages) <= page_count
      /\ \A k \in 1..Len(pages) : pages[k].id = k
      /\ Len(files) <= 1
      /\ files # <<>> => (EmbeddedOcrd = <<>> /\ pages = <<>>)
      /\ Len(ocr_log) = Len(EmbeddedOcrd) + Len(pages) + Len(files)
      /\ Len(ocr_log) <= MAX_IMAGES_TO_OCR + page_count + Len(files)

\* four eligible images, three of them OCR'd without text, then every page
\* OCR'd by the fallback
C6_Witness ==
  /\ pc = "done"
  /\ Cardinality(EligiblePositions) > MAX_IMAGES_TO_OCR
  /\ Len(EmbeddedOcrd) = MAX_IMAGES_TO_OCR
  /\ page_count = 2
  /\ Len(ocr_log) = MAX_IMAGES_TO_OCR + page_count
  /\ result.method = "ocr"

\* failures of one ocr_image call that say nothing about the next call
TransientFailures == {"UnidentifiedImageError", "RuntimeError: Tesseract OCR failed"}

\* the entries of the embedded images whose OCR did not raise
RECURSIVE NotFailed(_)
NotFailed(log) ==
  IF log = <<>> THEN <<>>
  ELSE IF Head(log).out.raised = "" THEN <<Head(log)>> \o NotFailed(Tail(log))
  ELSE NotFailed(Tail(log))

SomeTransientFailure ==
  \E k \in 1..Len(ocr_log) :
    ocr_log[k].img.src = "embedded" /\ ocr_log[k].out.raised \in TransientFailures

\* C7: a transient failure of ocr_image on an embedded image does not end the
\* request: the loop goes on to the next image, every image of images_to_ocr
\* is OCR'd in order, and the answer is the one computed from the images
\* whose OCR did not fail, the failed one adding no text and no confidence.
C7_TransientFailureSkipped ==
  SomeTransientFailure =>
    LET entries == EntriesFrom(ocr_log, "embedded")
        kept == WithText(NotFailed(entries))
        texts == [k \in 1..Len(kept) |-> kept[k].out.text]
        confidences == [k \in 1..Len(kept) |-> kept[k].out.confidence]
        trimmed == Strip(native_text)
    IN  /\ pc = "ocr_embedded" =>
             /\ i = Len(entries)
             /\ LogImages(entries) = SubSeq(images_to_ocr, 1, i)
        /\ pc # "ocr_embedded" => LogImages(entries) = images_to_ocr
        /\ result.kind = "raised" => ocr_log[Len(ocr_log)].img.src = "page"
        /\ (pc = "done" /\ kept # <<>>) =>
             result = DocumentData(
                        (IF trimmed = <<>> THEN <<>> ELSE trimmed \o ImageTextSeparator)
                          \o Join(<<"\n", "\n">>, texts),
                        page_count, "native+ocr", RDivInt(RSum(confidences), Len(kept)))
        /\ (pc = "done" /\ kept = <<>> /\ trimmed # <<>>) =>
             result = DocumentData(native_text, page_count, "native", None)
        /\ (pc = "done" /\ kept = <<>> /\ trimmed = <<>>) =>
             \/ result.kind = "raised"
             \/ result.kind = "data" /\ result.method = "ocr"

\* Tesseract fails on the first of three images and reads text from a later
\* one: the answer carries that text
C7_Witness ==
  /\ pc = "done"
  /\ Len(EntriesFrom(ocr_log, "embedded")) = 3
  /\ ocr_log[1].out.raised = "RuntimeError: Tesseract OCR failed"
  /\ ocr_log[3].out.raised = ""
  /\ ocr_log[3].out.text # <<>>
  /\ result.method = "native+ocr"
  /\ Len(image_texts) < 3

\* C8: when the OCR capability turns out to be unavailable (Tesseract is not
\* installed) during a request, the request ends in a failure; it never
\* returns a DocumentData as though the images had merely been skipped.
C8_UnavailableOcrIsFatal ==
  (pc = "done" /\ \E k \in 1..Len(ocr_log) :
                    ocr_log[k].out.raised = "RuntimeError: Tesseract OCR not found")
    => result.kind = "raised"

\* C9: a request of more than MAX_FILE_SIZE bytes is answered with the
\* file-too-large error whatever its filename, and no stage runs for it: no
\* PDF extraction, no image filter, no ocr_image call.  A request of exactly
\* MAX_FILE_SIZE bytes is not rejected for its size.
C9_OversizeRejectedFirst ==
  /\ file_size > MAX_FILE_SIZE =>
       /\ pc \in {"called", "done"}
       /\ extract_calls = 0
       /\ filter_runs = 0
       /\ ocr_log = <<>>
       /\ pc = "done" => result = ErrorDict("File too large")
  /\ (pc = "done" /\ file_size = MAX_FILE_SIZE) => result # ErrorDict("File too large")

\* an oversize request with a PDF filename, rejected
C9_Witness ==
  /\ pc = "done"
  /\ file_size = MAX_FILE_SIZE + 1
  /\ EndsWith(Lower(filename), <<".", "p", "d", "f">>)
  /\ result.kind = "error"

\* the filename ends, in any letter case, in an image extension and not in .pdf
ImageFilename ==
  /\ \E ext \in ImageExtensions : EndsWith(Lower(filename), ext)
  /\ ~EndsWith(Lower(filename), <<".", "p", "d", "f">>)

\* C10: a request within the size limit whose filename is an image name takes
\* the single-stage path: ocr_image is called exactly once, on the whole
\* file, the PDF extractor never runs, and the answer (when ocr_image does
\* not raise) is method ocr with page count 1 and a confidence, also when no
\* text was detected.
C10_ImageSingleStage ==
  (ImageFilename /\ file_size <= MAX_FILE_SIZE) =>
    /\ pc \in {"called", "ocr_file", "done"}
    /\ extract_calls = 0
    /\ filter_runs = 0
    /\ pc # "done" => ocr_log = <<>>
    /\ pc = "done" =>
         /\ Len(ocr_log) = 1
         /\ ocr_log[1].img = Image("file", 1, file_size)
         /\ result.kind = (IF ocr_log[1].out.raised = "" THEN "data" ELSE "raised")
         /\ result.kind = "data" =>
              /\ result.method = "ocr"
              /\ result.page_count = 1
              /\ result.confidence # None
              /\ result.text = ocr_log[1].out.text

\* an upper-case image name, OCR'd once without any text detected
C10_Witness ==
  /\ pc = "done"
  /\ filename = <<"x", ".", "P", "N", "G">>
  /\ Len(ocr_log) = 1
  /\ result.kind = "data"
  /\ result.method = "ocr"
  /\ result.text = <<>>
  /\ result.confidence = <<0, 1>>

\* ---------------------------------------------------- properties: requests
\* the latest request has been answered
Answered == last.endpoint # "" /\ last.response.by # ""

\* the InvalidInput causes of a document request: text that b64decode
\* rejects, more than MAX_FILE_SIZE bytes, a filename that is neither PDF nor
\* image, bytes that fitz cannot open, a PDF without pages for a thumbnail
InvalidInputCause ==
  LET decoded == b64decode(last.body.file_data)
  IN  \/ decoded.raised
      \/ /\ last.endpoint = "process_base64"
         /\ \/ decoded.size > MAX_FILE_SIZE
            \/ ~is_pdf(last.body.filename) /\ ~is_image(last.body.filename)
      \/ last.opened # <<>> /\ ~last.opened[1].valid
      \/ /\ last.endpoint = "generate_pdf_thumbnail"
         /\ last.opened # <<>>
         /\ last.opened[1].pages = 0

\* C11: a process_base64 or generate_pdf_thumbnail request with an
\* InvalidInput cause is answered by the handler itself, with ok=false, an
\* error message and no data; the cause never leaves the handler as an
\* exception.
C11_InvalidInputRecovered ==
  (Answered /\ last.endpoint \in {"process_base64", "generate_pdf_thumbnail"}
    /\ InvalidInputCause)
    => /\ last.response.by = "handler"
       /\ last.response.ok = <<FALSE>>
       /\ last.response.error # <<>>
       /\ last.response.data = <<>>

\* the operations whose results carry ok, a success payload and an error
PublicOperations ==
  {"process_base64", "generate_pdf_thumbnail", "face_embed", "face_compare",
   "face_load_model"}

\* the response carries the whole success payload of its endpoint
HasPayload(endpoint, r) ==
  CASE endpoint = "process_base64" -> r.data # <<>> /\ r.data[1].kind = "data"
    [] endpoint = "generate_pdf_thumbnail" -> r.data # <<>>
    [] endpoint = "face_embed" -> r.vector # <<>>
    [] endpoint = "face_compare" ->
         r.distance # <<>> /\ r.threshold # <<>> /\ r.match # <<>>
    [] endpoint = "face_load_model" -> r.message # <<>> /\ r.model # <<>>

\* the response carries no field of a success payload
NoPayload(r) ==
  /\ r.data = <<>> /\ r.vector = <<>> /\ r.distance = <<>> /\ r.threshold = <<>>
  /\ r.match = <<>> /\ r.message = <<>> /\ r.model = <<>>

\* C12: every result a public operation returns is discriminated: ok=true
\* with the success payload and no error, or ok=false with an error and no
\* success payload, the no-face results of face_embed and face_compare
\* included.
C12_ResultsDiscriminated ==
  (Answered /\ last.endpoint \in PublicOperations /\ last.response.by = "handler")
    => \/ /\ last.response.ok = <<TRUE>>
          /\ last.response.error = <<>>
          /\ HasPayload(last.endpoint, last.response)
       \/ /\ last.response.ok = <<FALSE>>
          /\ last.response.error # <<>>
          /\ NoPayload(last.response)

\* face_embed returned its no-face result
C12_NoFaceAnswered ==
  /\ last.endpoint = "face_embed"
  /\ last.response.by = "handler"
  /\ last.inferred
  /\ last.response.vector = <<>>

\* C13: every failure reaches the caller in the one shape {ok: false, error:
\* message}, the model-not-loaded error of face_embed and face_compare and a
\* failed initialization in face_load_model included; no endpoint answers a
\* failure in another shape.
C13_UniformErrorShape ==
  (Answered /\ last.response.ok # <<TRUE>>)
    => /\ last.response.ok = <<FALSE>>
       /\ last.response.error # <<>>
       /\ last.response.detail = <<>>

\* ------------------------------------------------------ properties: load_model
\* the step answers a face_load_model request for a name that is not supported
UnsupportedLoadAnswered ==
  /\ last' # last
  /\ last'.endpoint = "face_load_model"
  /\ last'.body.model \notin SUPPORTED_MODELS

\* C14: a load of a name outside the supported set fails with the
\* unsupported-model error and leaves the loaded instance, the model name and
\* the embedding cache as they were, from Unloaded and from Loaded(m) alike,
\* and starts no initialization.
C14_UnsupportedLoadChangesNothing ==
  [][UnsupportedLoadAnswered
       => /\ last'.response = LoadModelUnsupported(last'.body.model)
          /\ UNCHANGED <<_fa, _model_name, cache, loads, instances_created>>]_vars

\* an unsupported name was refused while a model was loaded and the cache held
\* an embedding
C14_RefusedWhileLoaded ==
  /\ last.endpoint = "face_load_model"
  /\ last.body.model \notin SUPPORTED_MODELS
  /\ last.response.by = "handler"
  /\ _fa # 0
  /\ cache # {}
  /\ loads = {}

\* the step takes up a face_load_model request for the model that is loaded
LoadOfLoadedModel ==
  /\ last' # last
  /\ last'.endpoint = "face_load_model"
  /\ _fa # 0
  /\ _model_name = last'.body.model

\* C15: load(name) in the state Loaded(name) is a no-op: nothing is released,
\* nothing is initialized, the instance stays the same one, and the request is
\* answered as loaded; a second load(name) leaves the state of the first.
C15_LoadIdempotent ==
  [][LoadOfLoadedModel
       => /\ last'.response = LoadModelLoaded(last'.body.model)
          /\ UNCHANGED <<_fa, _model_name, cache, loads, instances_created>>]_vars

\* the only instance ever built is loaded, has served an embedding, and a
\* load of its name was answered after that
C15_LoadedAgain ==
  /\ last.endpoint = "face_load_model"
  /\ last.response = LoadModelLoaded(last.body.model)
  /\ _model_name = last.body.model
  /\ _fa = 1
  /\ instances_created = 1
  /\ cache # {}

\* the FaceAnalysis instances that exist: the loaded one and the ones that
\* running calls of load_model are initializing
LiveInstances == ({_fa} \ {0}) \cup {l.fa : l \in loads}

\* C16: a load of a supported name in the state Loaded(otherName) releases
\* the loaded instance before it initializes the new one, so two instances
\* never exist at once; and when a load of a supported name has succeeded the
\* state is Loaded of that name.
C16_ReleaseThenInitialize ==
  /\ Cardinality(LiveInstances) <= 1
  /\ loads # {} => _fa = 0 /\ _model_name = ""
  /\ (/\ last.endpoint = "face_load_model"
      /\ last.response.by = "handler"
      /\ last.response.ok = <<TRUE>>)
       => _fa # 0 /\ _model_name = last.body.model

\* a load switched models: the second instance is loaded under the requested
\* name while the cache still holds an embedding made under the other name
C16_Switched ==
  /\ last.endpoint = "face_load_model"
  /\ last.response = LoadModelLoaded(last.body.model)
  /\ _fa = 2
  /\ _model_name = last.body.model
  /\ \E e \in cache : e.key[2] # _model_name

\* ------------------------------------------------- properties: face operations
\* the face operations other than load
FaceOperations ==
  {"face_embed", "face_compare", "face_cache_info", "face_cache_clear",
   "face_model_info"}

\* the latest request was a face operation answered with no model loaded
AnsweredUnloaded(endpoints) ==
  Answered /\ last.endpoint \in endpoints /\ _fa = 0

\* the response reports the model-not-loaded error
ModelNotLoadedReported ==
  \/ last.response.error = <<ModelNotLoaded>>
  \/ last.response.detail = <<ModelNotLoaded>>

\* the image payloads of the request pass the checks of its endpoint
PayloadGiven ==
  IF last.endpoint = "face_embed" THEN _strip_data_url(last.body.image_b64) # <<>>
  ELSE /\ _strip_data_url(last.body.a_b64) # <<>>
       /\ _strip_data_url(last.body.b_b64) # <<>>

\* C17 as stated: with no model loaded, embed, compare, cache stats, cache
\* clear and model status all fail with the model-not-loaded error, without
\* running inference or touching the cache.
C17_AllFaceOperationsNeedModel ==
  AnsweredUnloaded(FaceOperations)
    => ModelNotLoadedReported /\ ~last.inferred /\ ~last.touched

\* C17 amended: with no model loaded, embed and compare run no inference and
\* do not touch the cache, and fail with the model-not-loaded error whenever
\* their image payloads are not empty; cache stats and cache clear need no
\* model, go to the cache and are answered with ok=true; model status is
\* answered with ok=true and loaded=false.
C17_EmbedAndCompareNeedModel ==
  /\ AnsweredUnloaded({"face_embed", "face_compare"})
       => /\ ~last.inferred
          /\ ~last.touched
          /\ ~(last.response.ok = <<TRUE>>)
          /\ PayloadGiven => ModelNotLoadedReported
  /\ AnsweredUnloaded({"face_cache_info", "face_cache_clear"})
       => last.response.ok = <<TRUE>> /\ last.touched
  /\ AnsweredUnloaded({"face_model_info"})
       => last.response.ok = <<TRUE>> /\ ~last.response.data[1].loaded

\* compare was refused for want of a model while the cache held an embedding
C17_RefusedWithFilledCache ==
  /\ AnsweredUnloaded({"face_compare"})
  /\ PayloadGiven
  /\ ModelNotLoadedReported
  /\ cache # {}

\* ------------------------------------------------------ properties: concurrency
\* C18: loads of the one model handle exclude each other: at most one call of
\* load_model is between its release of the old instance and its assignment
\* of the new one, and while it is there no other face_load_model request
\* begins.
C18_LoadsMutuallyExclusive ==
  /\ Cardinality(loads) <= 1
  /\ loads # {} => ~ENABLED FaceLoadModelBegin

\* the second initialization is running, after the first load has ended
C18_SecondLoadRunning ==
  /\ \E l \in loads : l.fa = 2 /\ l.on_loop
  /\ loop_owner = "face_load_model"
  /\ ~ENABLED FaceLoadModelBegin

\* C19: a model load in progress does not block document processing: while
\* load_model is initializing a model, a process_base64 request can start
\* unless a document request is already being served.
C19_LoadDoesNotBlockDocuments ==
  (loads # {} /\ pc = "idle")
    => ENABLED (\E name \in OtherFilenames : ProcessBase64Begin(name))

\* ------------------------------------------------------- properties: the cache
\* /face/embed has just been answered for an image it had been sent before,
\* under the same model name, with the cache enabled and not cleared since
EmbeddedAgain(e) ==
  /\ Answered
  /\ last.endpoint = "face_embed"
  /\ _fa # 0
  /\ cache_enabled
  /\ e.key = get_cache_key(_strip_data_url(last.body.image_b64), _model_name)
  /\ e.calls = 2

\* the answer is a cache hit with the vector the first call returned
HitWithFirstVector(e) ==
  /\ last.response.vector # <<>>
  /\ last.response.vector = e.first
  /\ last.response.meta # <<>>
  /\ last.response.meta[1].cached

\* C20 as stated: whenever /face/embed is called twice with the same image
\* under the same loaded model, the cache enabled and not cleared in between,
\* the second call reports cached=true and returns the vector of the first.
C20_SecondEmbedIsHit ==
  \A e \in embed_returned : EmbeddedAgain(e) => HitWithFirstVector(e)

\* C20 amended: the same, provided the first call returned an embedding (an
\* image without a face is never stored, so it is never a hit).
C20_SecondEmbedIsHitAfterFace ==
  \A e \in embed_returned :
    (EmbeddedAgain(e) /\ e.first # <<>>) => HitWithFirstVector(e)

\* a second call for an image with a face has been answered, under a model
\* whose detector could have produced another embedding for it
C20_FaceEmbeddedAgain ==
  \E e \in embed_returned :
    /\ EmbeddedAgain(e)
    /\ e.first # <<>>
    /\ Cardinality(Embeddings(_model_name)) > 1

\* /face/embed has just been answered with a vector while a model is loaded
EmbeddingReturned ==
  /\ Answered
  /\ last.endpoint = "face_embed"
  /\ last.response.vector # <<>>
  /\ _fa # 0

\* the latest call of /face/embed was the first for its image under the
\* loaded model since the cache was last cleared
FirstUnderModel ==
  \E e \in embed_returned :
    /\ e.key = get_cache_key(_strip_data_url(last.body.image_b64), _model_name)
    /\ e.calls = 1

\* the embeddings the detector of a model can return for the pictures
ModelVectors(model) ==
  UNION {{LargestFace(faces).normed_embedding :
            faces \in Detections(model, x) \ {<<>>}} : x \in Pictures}

\* C21: cache entries of different models never collide: an embed under the
\* loaded model never returns an entry stored under another model, and the
\* first embed of an image under a model is a miss that runs inference with
\* that model, whatever was stored for the image under other models.
C21_ModelsNeverCollide ==
  EmbeddingReturned
    => /\ last.response.vector[1] \in ModelVectors(_model_name)
       /\ FirstUnderModel
            => /\ ~last.response.meta[1].cached
               /\ last.inferred

\* an image cached under one model has been embedded for the first time
\* under the other model
C21_EmbeddedUnderSecondModel ==
  /\ EmbeddingReturned
  /\ FirstUnderModel
  /\ \E e \in cache :
       /\ e.key[1] = _strip_data_url(last.body.image_b64)
       /\ e.key[2] # _model_name
       /\ e.embedding # last.response.vector[1]

\* the step is a full clear of the cache
CacheCleared == last'.endpoint = "face_cache_clear" /\ cache' = {}

\* every entry is still stored after the step, with the embedding it had
EntriesKept ==
  \A e \in cache : \E f \in cache' : f.key = e.key /\ f.embedding = e.embedding

\* the step stores an entry under a key that was not stored before
EntryCreated == \E f \in cache' : \A e \in cache : e.key # f.key

\* C22: a cache entry is created only by an embed that missed and ran the
\* detector (for /face/embed or for /face/compare), and is destroyed only by
\* a full clear: in every other step, loads and model switches included, the
\* stored keys stay and no stored embedding is replaced.
C22_EntryLifecycle ==
  [][/\ CacheCleared \/ EntriesKept
     /\ EntryCreated
          => /\ last'.endpoint \in {"face_embed", "face_compare"}
             /\ last'.inferred
             /\ ~CacheCleared]_vars

\* the entries stored under two models are both there after the switch, and
\* cache stats were read
C22_EntriesOfTwoModels ==
  /\ last.endpoint = "face_cache_info"
  /\ _fa = 2
  /\ \E e \in cache, f \in cache : e.key[2] # f.key[2]

\* C23: /face/cache/clear returns as its deleted count the number of entries
\* the cache held before the call and leaves the cache empty; cache stats
\* read right after it report no entry, and an embed right after it is a
\* miss.
C23_ClearCountsEntries ==
  [][/\ last'.endpoint = "face_cache_clear"
          => /\ last'.response.data[1].deleted = Cardinality(cache)
             /\ cache' = {}
     /\ (last.endpoint = "face_cache_clear" /\ last'.endpoint = "face_cache_info")
          => last'.response.data[1].cached_embeddings = 0
     /\ (/\ last.endpoint = "face_cache_clear"
         /\ last'.endpoint = "face_embed"
         /\ last'.response.vector # <<>>)
          => /\ ~last'.response.meta[1].cached
             /\ last'.inferred]_vars

\* a clear has removed three entries
C23_ThreeEntriesCleared ==
  /\ last.endpoint = "face_cache_clear"
  /\ last.response.data[1].deleted = 3
  /\ cache = {}

\* a running clear_cache has removed some of the entries it found, not all
PartlyCleared ==
  /\ clearing # <<>>
  /\ cache # clearing[1].store
  /\ cache # {}

\* C24: a clear is one operation for the readers of the cache: while only
\* some of the entries have been removed the clearing handler holds the event
\* loop, so every embed lookup and every cache-stats request is answered from
\* the whole store of before the clear or from the empty store after it.
C24_NoTornRead ==
  [][/\ PartlyCleared => loop_owner = "face_cache_clear"
     /\ (last' # last /\ last'.endpoint \in {"face_embed", "face_cache_info"})
          => ~PartlyCleared]_vars

\* a clear of three entries has removed one of them and still holds the loop
C24_ClearHalfDone ==
  /\ PartlyCleared
  /\ Cardinality(clearing[1].store) = 3
  /\ Cardinality(cache) = 2
  /\ loop_owner = "face_cache_clear"

\* ------------------------------------------------------ properties: the faces
\* width x height of the bounding box of a face
BoxArea(f) == RMul(RSub(f.bbox[3], f.bbox[1]), RSub(f.bbox[4], f.bbox[2]))

\* the first face, in the detector's order, of the largest bounding-box area
RECURSIVE LargestBox(_)
LargestBox(faces) ==
  IF Len(faces) = 1 THEN faces[1]
  ELSE LET rest == LargestBox(Tail(faces))
       IN  IF RLe(BoxArea(rest), BoxArea(Head(faces))) THEN Head(faces) ELSE rest

\* /face/embed has just been answered after a miss that detected faces
MissWithFaces ==
  /\ Answered
  /\ last.endpoint = "face_embed"
  /\ last.inferred
  /\ last.response.vector # <<>>

\* C25: on an embed miss with at least one detected face, the embedding and
\* the bounding box returned are those of the face of the largest
\* bounding-box area (width x height), the first such face in the detector's
\* order when several share it, and meta.faces is the number of faces.
C25_LargestBoxSelected ==
  MissWithFaces
    => \E faces \in Detections(_model_name, _strip_data_url(last.body.image_b64)) :
         /\ last.response.vector = <<LargestBox(faces).normed_embedding>>
         /\ last.response.meta[1].bbox = <<LargestBox(faces).bbox>>
         /\ last.response.meta[1].faces = Len(faces)

\* /face/compare has just been answered by its handler while a model is loaded
CompareAnswered ==
  /\ Answered
  /\ last.endpoint = "face_compare"
  /\ last.response.by = "handler"
  /\ _fa # 0

\* the detector of the loaded model finds a face in the image
YieldsFace(image_b64) ==
  \E faces \in Detections(_model_name, _strip_data_url(image_b64)) : faces # <<>>

\* C26: a comparison returns a distance exactly when both images yield a
\* face; otherwise it returns no distance and an error that names side A
\* whenever image A has no face, and side B when A has a face and B has none.
C26_DistanceIffBothFaces ==
  CompareAnswered
    => LET a == last.body.a_b64
           b == last.body.b_b64
           r == last.response
       IN  /\ r.distance # <<>> <=> YieldsFace(a) /\ YieldsFace(b)
           /\ ~YieldsFace(a) => r.error = <<<<"no face in ", "A">>>>
           /\ YieldsFace(a) /\ ~YieldsFace(b) => r.error = <<<<"no face in ", "B">>>>
           /\ r.distance # <<>> => r.error = <<>>

\* an image with a face has been compared with an image without one
C26_NoFaceInB ==
  /\ CompareAnswered
  /\ YieldsFace(last.body.a_b64)
  /\ ~YieldsFace(last.body.b_b64)
  /\ last.response.distance = <<>>

\* two images without a face have been compared
C26_NoFaceInEither ==
  /\ CompareAnswered
  /\ ~YieldsFace(last.body.a_b64)
  /\ ~YieldsFace(last.body.b_b64)

\* /face/compare has just been answered for one image with a face sent as
\* both sides
SameImageCompared ==
  /\ CompareAnswered
  /\ _strip_data_url(last.body.a_b64) = _strip_data_url(last.body.b_b64)
  /\ YieldsFace(last.body.a_b64)

\* C27: comparing an image that has a face with itself gives distance 0 and
\* match = true for every threshold >= 0, threshold 0 included, on a cold
\* cache, on a warm cache and with caching disabled.
C27_SelfDistanceZero ==
  SameImageCompared
    => /\ last.response.distance # <<>>
       /\ last.response.distance[1][1] = 0
       /\ last.response.match = <<TRUE>>

\* ocr_image has been called on an image and has returned
OcrReturned == ocr_log # <<>> /\ ocr_log[1].out.raised = ""

\* the tokens among the rows of image_to_data: the rows that carry text and a
\* confidence
RECURSIVE TokenCount(_)
TokenCount(rows) ==
  IF rows = <<>> THEN 0
  ELSE (IF Strip(Head(rows).text) # <<>> /\ Head(rows).conf >= 0 THEN 1 ELSE 0)
       + TokenCount(Tail(rows))

\* the sum of the confidences (in percent) of the tokens
RECURSIVE TokenPercentSum(_)
TokenPercentSum(rows) ==
  IF rows = <<>> THEN 0
  ELSE (IF Strip(Head(rows).text) # <<>> /\ Head(rows).conf >= 0
        THEN Head(rows).conf ELSE 0)
       + TokenPercentSum(Tail(rows))

\* C28: the confidence ocr_image returns is the mean of the confidences of the
\* tokens the OCR capability reports, brought from percent to the range 0-1,
\* so it is never below 0 nor above 1; when no token is detected the text is
\* empty and the confidence is exactly 0.
C28_ConfidenceIsTokenMean ==
  OcrReturned
    => LET rows == ocr_log[1].rows
           out == ocr_log[1].out
           n == TokenCount(rows)
       IN  /\ out.confidence # None
           /\ out.confidence[2] > 0
           /\ 0 <= out.confidence[1] /\ out.confidence[1] <= out.confidence[2]
           /\ n > 0 => out.confidence[1] * 100 * n = TokenPercentSum(rows) * out.confidence[2]
           /\ n = 0 => out.text = <<>> /\ out.confidence[1] = 0

\* ocr_image has returned the mean of two different token confidences
C28_TwoTokensAveraged ==
  /\ OcrReturned
  /\ TokenCount(ocr_log[1].rows) = 2
  /\ ocr_log[1].rows[1].conf # ocr_log[1].rows[2].conf
  /\ ocr_log[1].out.confidence[1] > 0

\* ocr_image has returned for rows among which there is no token
C28_NoTokenDetected ==
  /\ OcrReturned
  /\ ocr_log[1].rows # <<>>
  /\ TokenCount(ocr_log[1].rows) = 0

\* resize_image_for_ocr has handed back an image
ResizeReturned == ocr_log # <<>> /\ ocr_log[1].resized # <<>>

\* the side new is the side old scaled by max / longer, cut to whole pixels
ScaledSide(new, old, longer, max) ==
  new * longer <= old * max /\ old * max < (new + 1) * longer

\* the longer side of the resized image is the maximum and the other side is
\* scaled by the same ratio
LongerSideIsMax(img, resized, max) ==
  IF img.width > img.height
  THEN resized.width = max /\ ScaledSide(resized.height, img.height, img.width, max)
  ELSE resized.height = max /\ ScaledSide(resized.width, img.width, img.height, max)

\* C30: an image of at least 1 x 1 pixels with a side above the maximum M is
\* resized so that its longer side is M and its other side is scaled by the
\* same ratio, both sides being at least 1 and at most M; an image with both
\* sides within M is handed back unchanged, byte for byte.
C30_ResizedWithinBounds ==
  ResizeReturned
    => LET img == ocr_log[1].img
           resized == ocr_log[1].resized[1]
           max == OCR_IMAGE_MAX_DIMENSION
       IN  IF img.width > max \/ img.height > max
           THEN /\ LongerSideIsMax(img, resized, max)
                /\ 1 <= resized.width /\ resized.width <= max
                /\ 1 <= resized.height /\ resized.height <= max
           ELSE resized = img

\* the cache holds the embedding of the image under the loaded model, so
\* that an embed of the image is served from the cache
ServedFromCache(image_b64) ==
  /\ cache_enabled
  /\ \E e \in cache : e.key = get_cache_key(_strip_data_url(image_b64), _model_name)

\* C29: both_cached of a comparison is true exactly when both embeds of that
\* call were served from the cache: it is false when caching is disabled or
\* either side was a miss, the first compare(img, img) on a cold cache
\* included (A misses and stores, B hits), and true on the repeated
\* comparison of the same pair.
C29_BothCachedIffBothHits ==
  [][(last' # last /\ last'.endpoint = "face_compare"
        /\ last'.response.distance # <<>>)
       => (last'.response.meta[1].both_cached
             <=> ServedFromCache(last'.body.a_b64) /\ ServedFromCache(last'.body.b_b64))]_vars

\* an image has been compared with itself again and both sides came from the
\* cache
C29_RepeatedCompare ==
  /\ SameImageCompared
  /\ last.response.distance # <<>>
  /\ last.response.meta[1].both_cached

\* an image has been compared with itself: side A missed and stored, side B
\* was served from the cache
C29_ColdSelfCompare ==
  /\ SameImageCompared
  /\ last.response.distance # <<>>
  /\ ~last.response.meta[1].a[1].cached
  /\ last.response.meta[1].b[1].cached
  /\ ~last.response.meta[1].both_cached

\* /face/embed has just been answered, with a model loaded, for an image in
\* which the detector finds no face
FacelessEmbedded ==
  /\ Answered
  /\ last.endpoint = "face_embed"
  /\ last.response.by = "handler"
  /\ _fa # 0
  /\ _strip_data_url(last.body.image_b64) # <<>>
  /\ ~YieldsFace(last.body.image_b64)

\* every entry of the cache belongs to an image and a model whose detector
\* finds a face in the image
OnlyFacesCached ==
  \A e \in cache : \E faces \in Detections(e.key[2], e.key[1]) : faces # <<>>

\* C31: an embed that detects no face leaves the cache as it was, also with
\* caching enabled: the cache only ever holds entries of (image, model) pairs
\* in which a face was found, and every embed of a faceless image, a repeated
\* one included, runs detection and reports cached=false.
C31_NoFaceNeverCached ==
  /\ [](/\ OnlyFacesCached
        /\ FacelessEmbedded
             => /\ last.inferred
                /\ last.response.vector = <<>>
                /\ last.response.meta # <<>>
                /\ ~last.response.meta[1].cached)
  /\ [][(last'.endpoint = "face_embed" /\ last'.response.vector = <<>>)
          => cache' = cache]_vars

\* a faceless image has been embedded a second time under the same model with
\* the cache enabled, not cleared since and holding other entries
C31_FacelessEmbeddedAgain ==
  /\ FacelessEmbedded
  /\ cache # {}
  /\ \E e \in embed_returned : EmbeddedAgain(e)

\* /health or /face/model has just been answered
ModelStatusAnswered ==
  /\ Answered
  /\ last.endpoint \in {"health_check", "face_model_info"}
  /\ last.response.data # <<>>

\* C32: in every state reached by loads that succeed, fail or are refused,
\* the model handle and the model name agree: a handle is held exactly when a
\* name is set, so get_model_info reports loaded=true exactly when it reports
\* a name; a reported name is one of the supported models; and /health and
\* /face/model report that pair.
C32_HandleAndNameConsistent ==
  LET info == get_model_info(_fa, _model_name)
  IN  /\ _fa # 0 <=> _model_name # ""
      /\ info.loaded <=> info.model # <<>>
      /\ info.model # <<>> => info.model[1] \in SUPPORTED_MODELS
      /\ ModelStatusAnswered
           => /\ last.response.data[1].loaded <=> _model_name # ""
              /\ last.response.data[1].model =
                   (IF _model_name = "" THEN <<>> ELSE <<_model_name>>)
              /\ last.response.ok = <<TRUE>>

\* /health has been answered with no model loaded after two initializations
\* of which the last one failed
C32_HealthAfterFailedLoad ==
  /\ ModelStatusAnswered
  /\ last.endpoint = "health_check"
  /\ instances_created = 2
  /\ loads = {}
  /\ _fa = 0

\* /face/model has been answered with a loaded model
C32_StatusWhileLoaded ==
  /\ ModelStatusAnswered
  /\ last.endpoint = "face_model_info"
  /\ last.response.data[1].loaded

\* the latest request was a load whose initialization raised
LoadFailed ==
  /\ last.endpoint = "face_load_model"
  /\ last.response.by = "http_exception_handler"
  /\ last.response.status = 500

\* no model is loaded
Unloaded == _fa = 0 /\ _model_name = ""

\* C33: when the initialization of a load of a supported name fails, the
\* state afterwards is Unloaded, whether the load began in Unloaded or in
\* Loaded(otherName): the other model was released when the load began and is
\* not restored, and a failed load never leaves Loaded(name). From then on
\* embed and compare fail with the model-not-loaded error, and only a load
\* that succeeds ends the Unloaded state.
C33_FailedLoadEndsUnloaded ==
  /\ [](/\ LoadFailed => Unloaded /\ Supported(last.body.model)
        /\ loads # {} => Unloaded
        /\ (AnsweredUnloaded({"face_embed", "face_compare"}) /\ PayloadGiven)
             => ModelNotLoadedReported /\ ~last.inferred)
  /\ [][(Unloaded /\ ~Unloaded')
          => /\ last'.endpoint = "face_load_model"
             /\ last'.response = LoadModelLoaded(last'.body.model)
             /\ _model_name' = last'.body.model]_vars

\* a load has failed that began in Loaded(otherName): of the two
\* initializations begun so far the first one loaded the model under which
\* the cache holds an entry, the second one, of another name, has just raised
C33_FailedSwitch ==
  /\ LoadFailed
  /\ Unloaded
  /\ instances_created = 2
  /\ \E e \in cache : e.key[2] # last.body.model

\* embed has been refused for want of a model after a load has failed, the
\* cache still holding an entry of the released model
C33_RefusedAfterFailedLoad ==
  /\ AnsweredUnloaded({"face_embed"})
  /\ PayloadGiven
  /\ ModelNotLoadedReported
  /\ instances_created >= 1
  /\ cache # {}

\* C34: whatever load, embed, compare and cache-clear requests arrive, an
\* embed that has passed its loaded check runs detection on the model it has
\* checked, never on a released one, and every embedding in the cache is
\* stored under the key of the model that computed it: the check, the cache
\* key and the inference of one embed see the same model state.
C34_EmbedSeesOneModelState ==
  /\ embeds # <<>>
       => /\ _fa # 0
          /\ _fa = embeds[1].fa
          /\ embeds[1].key = get_cache_key(_strip_data_url(embeds[1].image), _model_name)
          /\ ~ENABLED FaceLoadModelBegin
  /\ \A e \in cache : e.embedding \in ModelVectors(e.key[2])
  /\ (Answered /\ last.endpoint = "face_embed")
       => last.response.by # "global_exception_handler"

\* an embed is past its check and about to run the detector of the second
\* model loaded, while the cache holds an entry of the first
C34_EmbedRunningAfterSwitch ==
  /\ embeds # <<>>
  /\ loop_owner = "face_embed"
  /\ _fa = 2
  /\ \E e \in cache : e.key[2] # _model_name
====
